---- MODULE Spec2Model ----
(***************************************************************************)
(* Outline parsing and structural merge of the todo corpus:                *)
(*   task_status_view.parse_file, filter_priority.parse_file and           *)
(*   import_external_tasks (gather_tasks, build_heading_block,             *)
(*   insert_into_section, run_single_import).                              *)
(*                                                                         *)
(* A line of text is a sequence of tokens.  A token is one whitespace      *)
(* character (TAB, SP), one of the characters the patterns look at         *)
(* ("[", "]", "#", "="), a one-character tag code, or a run of other       *)
(* characters written as one string ("Work").  A file is the sequence of   *)
(* lines that read_text().splitlines() returns.  Python's 0-based line     *)
(* indices are 1-based here.                                               *)
(***************************************************************************)
EXTENDS Integers, Sequences, FiniteSets, TLC

\* ------------------------------------------------------------------ bounds

\* longest file given to the two parsers and to insert_into_section
MaxLines == 3

\* longest source file of an import
MaxSrcLines == 3

\* most runs of the same import in a row
MaxRuns == 2

\* ------------------------------------------------------------ text helpers

TAB == "\t"
SP == " "

IsWs(c) == c \in {TAB, SP}

\* index of the first token that is not whitespace, Len+1 when there is none
FirstNonWs(s) ==
  IF \A k \in 1..Len(s) : IsWs(s[k]) THEN Len(s) + 1
  ELSE CHOOSE k \in 1..Len(s) : ~IsWs(s[k]) /\ \A j \in 1..(k-1) : IsWs(s[j])

\* index of the last token that is not whitespace, 0 when there is none
LastNonWs(s) ==
  IF \A k \in 1..Len(s) : IsWs(s[k]) THEN 0
  ELSE CHOOSE k \in 1..Len(s) : ~IsWs(s[k]) /\ \A j \in (k+1)..Len(s) : IsWs(s[j])

\* str.lstrip()
LStrip(s) == SubSeq(s, FirstNonWs(s), Len(s))

\* str.rstrip()
RStrip(s) == SubSeq(s, 1, LastNonWs(s))

\* str.strip()
Strip(s) == SubSeq(s, FirstNonWs(s), LastNonWs(s))

\* str.lower() on the tag codes
Lower(c) ==
  CASE c = "B" -> "b" [] c = "I" -> "i" [] c = "W" -> "w"
    [] c = "D" -> "d" [] c = "X" -> "x" [] c = "T" -> "t"
    [] OTHER -> c

\* column reached after the first n tokens of s, tabs expanded to width 4
RECURSIVE ExpandCols(_, _)
ExpandCols(s, n) ==
  IF n = 0 THEN 0
  ELSE LET c == ExpandCols(s, n - 1)
       IN  IF s[n] = TAB THEN ((c \div 4) + 1) * 4 ELSE c + 1

\* leading_indent(line): len(expanded) - len(expanded.lstrip())
leading_indent(line) == ExpandCols(line, FirstNonWs(line) - 1)

\* "\n".join(seq of lines)
RECURSIVE JoinNL(_)
JoinNL(ls) ==
  IF ls = <<>> THEN <<>>
  ELSE IF Len(ls) = 1 THEN ls[1]
  ELSE ls[1] \o <<"\n">> \o JoinNL(Tail(ls))

\* F of the value of v, with v evaluated once however often F uses its argument
Bind(v, F(_)) == CHOOSE r \in { F(x) : x \in {v} } : TRUE

\* the elements of a sequence whose index is in keep, in order, from index k on
RECURSIVE SelectSeqIdx(_, _, _)
SelectSeqIdx(ls, keep, k) ==
  IF k > Len(ls) THEN <<>>
  ELSE (IF k \in keep THEN <<ls[k]>> ELSE <<>>) \o SelectSeqIdx(ls, keep, k + 1)

\* ------------------------------------------------- task_status_view tables

STATUS_TAGS ==
  [c \in {"b", "i", "w", "d", "x", "t"} |->
     CASE c = "b" -> "blocked" [] c = "i" -> "in-progress" [] c = "w" -> "waiting"
       [] c = "d" -> "delegated" [] c = "x" -> "done" [] c = "t" -> "transfer"]

\* STATUS_PATTERN.match(line): ^\s*\[([bdwixt])\]\s*(.*)$, IGNORECASE
STATUS_PATTERN(line) ==
  LET r == LStrip(line)
  IN  /\ Len(r) >= 3
      /\ r[1] = "["
      /\ Lower(r[2]) \in {"b", "d", "w", "i", "x", "t"}
      /\ r[3] = "]"

\* group(1) of STATUS_PATTERN
StatusCode(line) == LStrip(line)[2]

\* LEGEND_PATTERN.match(s): ^\[[^\]]+\]\s*=
LEGEND_PATTERN(s) ==
  /\ Len(s) >= 4
  /\ s[1] = "["
  /\ \E k \in 3..Len(s) :
       /\ s[k] = "]"
       /\ \A j \in 2..(k-1) : s[j] # "]"
       /\ \E e \in (k+1)..Len(s) :
            /\ s[e] = "="
            /\ \A j \in (k+1)..(e-1) : IsWs(s[j])

\* number of "#" tokens that s starts with
RECURSIVE HashRun(_)
HashRun(s) == IF s # <<>> /\ Head(s) = "#" THEN 1 + HashRun(Tail(s)) ELSE 0

\* HEADING_PATTERN.match(line): ^\s*(#+)\s*(.+?)\s*$
HEADING_PATTERN(line) ==
  LET r == LStrip(line)
  IN  Len(r) >= 2 /\ r[1] = "#"

\* len(group(1)): (#+) gives one "#" back to (.+?) when nothing follows
HeadingLevel(line) ==
  LET r == LStrip(line)
      h == HashRun(r)
  IN  IF Len(r) > h THEN h ELSE h - 1

\* group(2).strip()
HeadingText(line) ==
  LET r == LStrip(line)
      h == HashRun(r)
  IN  IF Len(r) > h THEN Strip(SubSeq(r, h + 1, Len(r))) ELSE <<"#">>

\* f"{'#' * level} {heading_text}"
HeadingLabel(line) ==
  [k \in 1..HeadingLevel(line) |-> "#"] \o <<SP>> \o HeadingText(line)

\* section = "Uncategorized"
Uncategorized == <<"Uncategorized">>

\* ------------------------------------------------------------- state

VARIABLES
  pc,              \* the entry point that is running, "done" when none is
  lines,           \* the outline file the two parsers read
  idx,             \* task_status_view.parse_file: idx (1-based)
  section,         \* task_status_view.parse_file: section
  heading_stack,   \* task_status_view.parse_file: heading_stack
  tasks,           \* task_status_view.parse_file: tasks
  fp_i,            \* filter_priority.parse_file: i (1-based)
  current_section, \* filter_priority.parse_file: current_section, <<>> is None
  priorities,      \* filter_priority.parse_file: priorities
  source_file,     \* import: the lines of spec.source_path
  today_file,      \* import: the lines of TODAY_FILE
  import_spec,     \* import: the ImportSpec of the runs
  inserted_log,    \* import: what each run_single_import so far returned
  today_log,       \* import: TODAY_FILE at the start and after each run so far
  unique_log,      \* import: unique_tasks of each run so far
  ins_lines,       \* insert_into_section: lines
  ins_section,     \* insert_into_section: section
  ins_block,       \* insert_into_section: block
  ins_result,      \* insert_into_section: the list returned
  ins_written,     \* run_single_import: the lines TODAY_FILE holds after write_text
  nh_entry,        \* run_single_import: the entry being grouped
  nh_chain,        \* run_single_import: its heading_chain, <<"?">> before it is set
  nh_normalized,   \* normalize_heading_chain(entry.headings), <<"?">> before the call
  bh_chain,        \* build_heading_block: heading_chain
  bh_entries,      \* build_heading_block: entries
  bh_out,          \* build_heading_block: the list returned
  sc_script,       \* sync_completed: "root" for sync_completed.py, "scripts" for scripts/
  sc_today,        \* sync_completed: the lines of TODAY_FILE
  sc_in_progress,  \* sync_completed: the lines of IN_PROGRESS_FILE
  sc_completed,    \* sync_completed: the lines of COMPLETED_FILE
  sc_log,          \* sync_completed: COMPLETED_FILE at the start and after each run so far
  sc_added,        \* sync_completed: tasks_added of each run so far
  sc_found,        \* sync_completed: the tasks gather_source_tasks returned in each run so far
  sc_sources,      \* sync_completed: the two source files at the start and after each run so far
  cli_entry,       \* main(): "status_view" for task_status_view, "import" for import_external_tasks
  cli_args,        \* main(): args
  cli_config,      \* main(): what task_sources.json holds
  cli_loaded,      \* main(): config, as load_config returned it
  cli_selected,    \* task_status_view.main: selected_statuses
  cli_tasks,       \* task_status_view.main: the tasks parse_file returned
  cli_targets,     \* task_status_view.main: output_targets
  cli_specs,       \* import_external_tasks.main: specs
  cli_today,       \* main(): the lines of 02.1_today.txt
  cli_parsed,      \* main(): a task file has been parsed
  cli_written,     \* main(): the files written so far
  cli_exit,        \* main(): the exit code of the process, -1 while it runs
  ep_program,      \* a script run from the shell: the script
  ep_quiet,        \* a script run: --quiet was given (import_external_tasks)
  ep_fs,           \* a script run: the files, each [exists, lines]
  ep_items,        \* focus_today.main: items
  ep_reported,     \* a script run: a missing file has been reported
  ep_written,      \* a script run: the files written so far
  ep_exit,         \* a script run: the exit code of the process, -1 while it runs
  dry_preview,     \* run_single_import(dry_run=True): the sections and heading groups printed
  rc_files,        \* two invocations at once: TODAY_FILE and COMPLETED_FILE on disk
  rc_import,       \* two invocations at once: where the import is and what it has read
  rc_sync,         \* two invocations at once: where the sync is and what it has read
  rc_last,         \* two invocations at once: the invocation that wrote TODAY_FILE last
  sw_script,       \* sync_completed write by write: "root" or "scripts"
  sw_files,        \* sync_completed write by write: the three files on disk
  sw_start,        \* sync_completed write by write: the three files before the first run
  sw_run,          \* sync_completed write by write: where the run is and what it has gathered
  sw_runs          \* sync_completed write by write: the runs started so far

parseVars == <<lines, idx, section, heading_stack, tasks,
               fp_i, current_section, priorities>>

importVars == <<source_file, today_file, import_spec,
                inserted_log, today_log, unique_log>>

insertVars == <<ins_lines, ins_section, ins_block, ins_result, ins_written>>

chainVars == <<nh_entry, nh_chain, nh_normalized>>

blockVars == <<bh_chain, bh_entries, bh_out>>

syncVars == <<sc_script, sc_today, sc_in_progress, sc_completed, sc_log, sc_added, sc_found,
              sc_sources>>

cliVars == <<cli_entry, cli_args, cli_config, cli_loaded, cli_selected, cli_tasks, cli_targets,
             cli_specs, cli_today, cli_parsed, cli_written, cli_exit>>

\* the variables of the entry points modelled after the parsers and the import
entryVars == <<ep_program, ep_quiet, ep_fs, ep_items, ep_reported, ep_written, ep_exit>>

raceVars == <<rc_files, rc_import, rc_sync, rc_last>>

stepVars == <<sw_script, sw_files, sw_start, sw_run, sw_runs>>

lateVars == <<entryVars, dry_preview, raceVars, stepVars>>

otherVars == <<blockVars, syncVars, cliVars, lateVars>>

vars == <<pc, parseVars, importVars, insertVars, chainVars, otherVars>>

\* ----------------------------------------- task_status_view.parse_file

\* the branch of the outer loop a line takes, in the order the code tests
StatusBranch(line) ==
  LET stripped == Strip(line)
  IN  IF stripped = <<>> THEN "blank"
      ELSE IF LEGEND_PATTERN(stripped) THEN "legend"
      ELSE IF HEADING_PATTERN(line) THEN "heading"
      ELSE IF LStrip(line) = line /\ ~STATUS_PATTERN(line) THEN "section"
      ELSE IF ~STATUS_PATTERN(line) THEN "content"
      ELSE IF Lower(StatusCode(line)) \notin DOMAIN STATUS_TAGS THEN "content"
      ELSE "task"

\* while len(heading_stack) >= level: heading_stack.pop()
RECURSIVE PopToLevel(_, _)
PopToLevel(stack, level) ==
  IF Len(stack) >= level /\ stack # <<>>
  THEN PopToLevel(SubSeq(stack, 1, Len(stack) - 1), level)
  ELSE stack

\* the heading branch: pop, then append the label
PushHeading(stack, line) ==
  Append(PopToLevel(stack, HeadingLevel(line)), HeadingLabel(line))

\* StatusBlockEnd with a blank line ending the block
RECURSIVE StatusBlockEndBlankStops(_, _, _)
StatusBlockEndBlankStops(ls, j, base_indent) ==
  IF j > Len(ls) THEN j
  ELSE IF Strip(ls[j]) = <<>> THEN j
  ELSE IF leading_indent(ls[j]) <= base_indent THEN j
  ELSE StatusBlockEndBlankStops(ls, j + 1, base_indent)

\* StatusBlockEnd with any bracketed line ending the block
RECURSIVE StatusBlockEndBracketStops(_, _, _)
StatusBlockEndBracketStops(ls, j, base_indent) ==
  IF j > Len(ls) THEN j
  ELSE IF Strip(ls[j]) = <<>> THEN StatusBlockEndBracketStops(ls, j + 1, base_indent)
  ELSE IF Strip(ls[j])[1] = "[" THEN j
  ELSE IF leading_indent(ls[j]) <= base_indent THEN j
  ELSE StatusBlockEndBracketStops(ls, j + 1, base_indent)

\* the inner loop: the index at which collection from j stops
RECURSIVE StatusBlockEnd(_, _, _)
StatusBlockEnd(ls, j, base_indent) ==
  IF j > Len(ls) THEN j
  ELSE LET next_line == ls[j]
           next_indent == leading_indent(next_line)
       IN  IF Strip(next_line) = <<>> THEN StatusBlockEnd(ls, j + 1, base_indent)
           ELSE IF LStrip(next_line) = next_line /\ ~STATUS_PATTERN(next_line) THEN j
           ELSE IF STATUS_PATTERN(next_line) /\ next_indent <= base_indent THEN j
           ELSE IF next_indent <= base_indent THEN j
           ELSE StatusBlockEnd(ls, j + 1, base_indent)

\* TaskEntry(status, section, file_path, block, list(heading_stack))
TaskEntry(status, sec, block, headings) ==
  [status |-> status, section |-> sec, lines |-> block, headings |-> headings]

\* StatusStep with an unindented heading line leaving the section as it is
StatusStepHeadingKeepsSection(ls, st) ==
  LET line == ls[st.idx]
      br == StatusBranch(line)
      skip == [st EXCEPT !.idx = st.idx + 1]
  IN  CASE br = "heading" ->
             [skip EXCEPT !.heading_stack = PushHeading(st.heading_stack, line)]
        [] br = "section" -> [skip EXCEPT !.section = Strip(line)]
        [] br = "task" ->
             LET stop == StatusBlockEnd(ls, st.idx + 1, leading_indent(line))
                 block == [k \in 1..(stop - st.idx) |-> RStrip(ls[st.idx + k - 1])]
             IN  [st EXCEPT !.idx = stop,
                            !.tasks = Append(st.tasks,
                               TaskEntry(STATUS_TAGS[Lower(StatusCode(line))],
                                         st.section, block, st.heading_stack))]
        [] OTHER -> skip

\* one pass of the outer loop over the state st = [idx, section, heading_stack, tasks]
StatusStep(ls, st) ==
  LET line == ls[st.idx]
      stripped == Strip(line)
      br == StatusBranch(line)
      skip == [st EXCEPT !.idx = st.idx + 1]
  IN  CASE br = "heading" ->
             [skip EXCEPT !.heading_stack = PushHeading(st.heading_stack, line),
                          !.section = IF LStrip(line) = line /\ stripped # <<>>
                                      THEN stripped ELSE st.section]
        [] br = "section" -> [skip EXCEPT !.section = stripped]
        [] br = "task" ->
             LET stop == StatusBlockEnd(ls, st.idx + 1, leading_indent(line))
                 block == [k \in 1..(stop - st.idx) |-> RStrip(ls[st.idx + k - 1])]
             IN  [st EXCEPT !.idx = stop,
                            !.tasks = Append(st.tasks,
                               TaskEntry(STATUS_TAGS[Lower(StatusCode(line))],
                                         st.section, block, st.heading_stack))]
        [] OTHER -> skip

StatusStart == [idx |-> 1, section |-> Uncategorized, heading_stack |-> <<>>, tasks |-> <<>>]

\* parse_file(file_path): the tasks of a whole file
RECURSIVE StatusRun(_, _)
StatusRun(ls, st) ==
  IF st.idx > Len(ls) THEN st
  ELSE LET Rest(nx) == StatusRun(ls, nx) IN Bind(StatusStep(ls, st), Rest)

parse_file(ls) == StatusRun(ls, StatusStart).tasks

StatusState == [idx |-> idx, section |-> section,
                heading_stack |-> heading_stack, tasks |-> tasks]

\* the assignments of one iteration of the outer loop
StatusApply ==
  LET nx == StatusStep(lines, StatusState)
  IN  /\ idx' = nx.idx
      /\ section' = nx.section
      /\ heading_stack' = nx.heading_stack
      /\ tasks' = nx.tasks
      /\ UNCHANGED <<pc, lines, fp_i, current_section, priorities, importVars, insertVars, chainVars, otherVars>>

\* the line at idx, <<>> past the end
StatusLine == IF idx <= Len(lines) THEN lines[idx] ELSE <<>>

\* if not stripped: idx += 1
StatusBlank ==
  /\ pc = "status" /\ idx <= Len(lines)
  /\ StatusBranch(StatusLine) = "blank"
  /\ StatusApply

\* if LEGEND_PATTERN.match(stripped): idx += 1
StatusLegend ==
  /\ pc = "status" /\ idx <= Len(lines)
  /\ StatusBranch(StatusLine) = "legend"
  /\ StatusApply

\* if heading_match: push the heading, an unindented one is the section too
StatusHeading ==
  /\ pc = "status" /\ idx <= Len(lines)
  /\ StatusBranch(StatusLine) = "heading"
  /\ StatusApply

\* an unindented line that is no status line: section = stripped
StatusSection ==
  /\ pc = "status" /\ idx <= Len(lines)
  /\ StatusBranch(StatusLine) = "section"
  /\ StatusApply

\* if not match: idx += 1
StatusContent ==
  /\ pc = "status" /\ idx <= Len(lines)
  /\ StatusBranch(StatusLine) = "content"
  /\ StatusApply

\* a status line: collect its block and append the TaskEntry
StatusTask ==
  /\ pc = "status" /\ idx <= Len(lines)
  /\ StatusBranch(StatusLine) = "task"
  /\ StatusApply

\* the outer loop ends; the same file then goes to filter_priority
StatusReturn ==
  /\ pc = "status"
  /\ idx > Len(lines)
  /\ pc' = "priority"
  /\ UNCHANGED <<parseVars, importVars, insertVars, chainVars, otherVars>>

\* ------------------------------------------- filter_priority.parse_file

\* PRIORITY_PATTERN.match(line): ^\s*\[([123])\]\s*(.*)$
PRIORITY_PATTERN(line) ==
  LET r == LStrip(line)
  IN  /\ Len(r) >= 3
      /\ r[1] = "["
      /\ r[2] \in {"1", "2", "3"}
      /\ r[3] = "]"

\* int(match.group(1))
PriorityOf(line) ==
  LET c == LStrip(line)[2]
  IN  CASE c = "1" -> 1 [] c = "2" -> 2 [] c = "3" -> 3

\* stripped.startswith('[') and '=' in stripped
FpLegend(stripped) ==
  /\ stripped # <<>>
  /\ stripped[1] = "["
  /\ \E k \in 1..Len(stripped) : stripped[k] = "="

\* the branch of the outer loop a line takes, in the order the code tests
FpBranch(line) ==
  LET stripped == Strip(line)
  IN  IF stripped = <<>> \/ FpLegend(stripped) THEN "skip"
      ELSE IF LStrip(line) = line /\ stripped # <<>> THEN "section"
      ELSE IF PRIORITY_PATTERN(line) THEN "task"
      ELSE "content"

\* FpBlockEnd with any priority line ending the block
RECURSIVE FpBlockEndTagStops(_, _, _)
FpBlockEndTagStops(ls, j, task_indent) ==
  IF j > Len(ls) THEN j
  ELSE LET next_line == ls[j]
           next_stripped == Strip(next_line)
       IN  IF LStrip(next_line) = next_line /\ next_stripped # <<>> THEN j
           ELSE IF PRIORITY_PATTERN(next_line) THEN j
           ELSE IF next_stripped # <<>> /\ leading_indent(next_line) <= task_indent THEN j
           ELSE FpBlockEndTagStops(ls, j + 1, task_indent)

\* the inner loop: the index at which collection from j stops
RECURSIVE FpBlockEnd(_, _, _)
FpBlockEnd(ls, j, task_indent) ==
  IF j > Len(ls) THEN j
  ELSE LET next_line == ls[j]
           next_stripped == Strip(next_line)
       IN  IF LStrip(next_line) = next_line /\ next_stripped # <<>> THEN j
           ELSE IF next_stripped # <<>> /\ leading_indent(next_line) <= task_indent THEN j
           ELSE FpBlockEnd(ls, j + 1, task_indent)

\* one pass of the outer loop over the state st = [i, current_section, priorities]
FpStep(ls, st) ==
  LET line == ls[st.i]
      br == FpBranch(line)
      skip == [st EXCEPT !.i = st.i + 1]
  IN  CASE br = "section" -> [skip EXCEPT !.current_section = Strip(line)]
        [] br = "task" ->
             LET stop == FpBlockEnd(ls, st.i + 1, leading_indent(line))
                 task_lines == SubSeq(ls, st.i, stop - 1)
                 section_name == IF st.current_section # <<>>
                                 THEN st.current_section ELSE Uncategorized
                 p == PriorityOf(line)
             IN  [st EXCEPT !.i = stop,
                            !.priorities[p] = Append(@, [section |-> section_name,
                                                         lines |-> task_lines])]
        [] OTHER -> skip

FpStart == [i |-> 1, current_section |-> <<>>, priorities |-> [p \in 1..3 |-> <<>>]]

FpState == [i |-> fp_i, current_section |-> current_section, priorities |-> priorities]

\* the assignments of one iteration of the outer loop
FpApply ==
  LET nx == FpStep(lines, FpState)
  IN  /\ fp_i' = nx.i
      /\ current_section' = nx.current_section
      /\ priorities' = nx.priorities
      /\ UNCHANGED <<pc, lines, idx, section, heading_stack, tasks, importVars, insertVars, chainVars, otherVars>>

\* the line at i, <<>> past the end
FpLine == IF fp_i <= Len(lines) THEN lines[fp_i] ELSE <<>>

\* skip empty lines and legend lines
FpSkip ==
  /\ pc = "priority" /\ fp_i <= Len(lines)
  /\ FpBranch(FpLine) = "skip"
  /\ FpApply

\* an unindented line: current_section = stripped
FpSection ==
  /\ pc = "priority" /\ fp_i <= Len(lines)
  /\ FpBranch(FpLine) = "section"
  /\ FpApply

\* a priority line: collect its block into priorities[priority]
FpTask ==
  /\ pc = "priority" /\ fp_i <= Len(lines)
  /\ FpBranch(FpLine) = "task"
  /\ FpApply

\* else: i += 1
FpContent ==
  /\ pc = "priority" /\ fp_i <= Len(lines)
  /\ FpBranch(FpLine) = "content"
  /\ FpApply

\* the outer loop ends: return priorities
FpReturn ==
  /\ pc = "priority"
  /\ fp_i > Len(lines)
  /\ pc' = "done"
  /\ UNCHANGED <<parseVars, importVars, insertVars, chainVars, otherVars>>

\* ------------------------------------- focus_today.parse_today_priority1

\* PRIORITY_1_PATTERN.match(line): ^\s*\[1\]\s*(.*)$
PRIORITY_1_PATTERN(line) ==
  LET r == LStrip(line)
  IN  /\ Len(r) >= 3
      /\ r[1] = "["
      /\ r[2] = "1"
      /\ r[3] = "]"

\* match.group(1).strip()
FocusText(line) ==
  LET r == LStrip(line)
  IN  Strip(SubSeq(r, 4, Len(r)))

\* one pass of the loop over the state st = [i, current_section, priority1_items];
\* the legend test is the one of filter_priority
FocusStep(ls, st) ==
  LET line == ls[st.i]
      stripped == Strip(line)
      skip == [st EXCEPT !.i = st.i + 1]
  IN  IF stripped = <<>> \/ FpLegend(stripped) THEN skip
      ELSE IF LStrip(line) = line THEN [skip EXCEPT !.current_section = stripped]
      ELSE IF PRIORITY_1_PATTERN(line)
      THEN LET section_name == IF st.current_section # <<>>
                               THEN st.current_section ELSE Uncategorized
           IN  IF FocusText(line) # <<>>
               THEN [skip EXCEPT !.priority1_items =
                                   Append(@, [section |-> section_name, text |-> FocusText(line)])]
               ELSE skip
      ELSE skip

FocusStart == [i |-> 1, current_section |-> <<>>, priority1_items |-> <<>>]

RECURSIVE FocusRun(_, _)
FocusRun(ls, st) ==
  IF st.i > Len(ls) THEN st
  ELSE LET Rest(nx) == FocusRun(ls, nx) IN Bind(FocusStep(ls, st), Rest)

\* parse_today_priority1(file_path) on a file that exists
parse_today_priority1(ls) == FocusRun(ls, FocusStart).priority1_items

\* ------------------------------------------------ import_external_tasks

DEFAULT_SECTION == <<"Imported">>

DEFAULT_STATUS_FILTER == <<"in-progress", "blocked">>

\* x in a list
InList(x, l) == \E k \in 1..Len(l) : l[k] = x

\* [line.strip() for line in lines if line.strip()]
RECURSIVE StrippedNonBlank(_)
StrippedNonBlank(ls) ==
  IF ls = <<>> THEN <<>>
  ELSE (IF Strip(Head(ls)) # <<>> THEN <<Strip(Head(ls))>> ELSE <<>>)
       \o StrippedNonBlank(Tail(ls))

\* canonicalize_lines(lines): the signature of a block
canonicalize_lines(ls) == JoinNL(StrippedNonBlank(ls))

\* heading_level(label); 0 stands for None, which every caller tests before >= 2
heading_level(label) ==
  LET stripped == LStrip(label)
  IN  IF stripped = <<>> \/ stripped[1] # "#" THEN 0 ELSE HashRun(stripped)

\* normalize_heading_chain that drops a level-1 heading even when no deeper one follows
NormalizeDropsTitle(chain) ==
  LET cleaned == StrippedNonBlank(chain)
      deep == { k \in 1..Len(cleaned) : heading_level(cleaned[k]) >= 2 }
  IN  IF deep # {}
      THEN SubSeq(cleaned, CHOOSE k \in deep : \A j \in deep : k <= j, Len(cleaned))
      ELSE <<>>

\* normalize_heading_chain(chain)
normalize_heading_chain(chain) ==
  LET cleaned == StrippedNonBlank(chain)
      deep == { k \in 1..Len(cleaned) : heading_level(cleaned[k]) >= 2 }
  IN  IF cleaned = <<>> THEN <<>>
      ELSE IF deep # {}
           THEN SubSeq(cleaned, CHOOSE k \in deep : \A j \in deep : k <= j, Len(cleaned))
           ELSE cleaned

\* reindent_entry_lines(lines, indent_prefix)
reindent_entry_lines(ls, indent_prefix) ==
  [k \in 1..Len(ls) |->
     IF Strip(ls[k]) = <<>> THEN <<>> ELSE indent_prefix \o Strip(ls[k])]

\* '\t' * n
Tabs(n) == [k \in 1..n |-> TAB]

\* the loop over entries of build_heading_block, from entry k on
RECURSIVE EntryLines(_, _, _)
EntryLines(entries, k, entry_indent) ==
  IF k > Len(entries) THEN <<>>
  ELSE reindent_entry_lines(entries[k].lines, entry_indent)
       \o (IF k # Len(entries) THEN << <<>> >> ELSE <<>>)
       \o EntryLines(entries, k + 1, entry_indent)

\* build_heading_block(heading_chain, entries)
build_heading_block(heading_chain, entries) ==
  LET heads == [k \in 1..Len(heading_chain) |-> Tabs(k) \o heading_chain[k]]
      entry_indent == Tabs(IF heading_chain # <<>> THEN Len(heading_chain) + 1 ELSE 1)
      out == heads \o EntryLines(entries, 1, entry_indent)
  IN  IF out # <<>> /\ out[Len(out)] # <<>> THEN Append(out, <<>>) ELSE out

\* determine_section(spec, entry)
determine_section(sp, entry) ==
  LET section_name == Strip(entry.section)
  IN  IF section_name # <<>> /\ section_name \in DOMAIN sp.section_map
      THEN (IF sp.section_map[section_name] # <<>>
            THEN sp.section_map[section_name] ELSE sp.section)
      ELSE IF sp.use_source_section /\ section_name # <<>> THEN section_name
      ELSE sp.section

\* find_section_indices(lines, section): section_idx is 1-based and 0 for the
\* code's -1; insert_idx is the number of lines before the insertion point
find_section_indices(ls, sec) ==
  LET top(k) == Strip(ls[k]) # <<>> /\ LStrip(ls[k]) = ls[k]
      hits == { k \in 1..Len(ls) : top(k) /\ Strip(ls[k]) = sec }
  IN  IF hits = {} THEN [section_idx |-> 0, insert_idx |-> Len(ls)]
      ELSE LET at == CHOOSE k \in hits : \A j \in hits : k <= j
               after == { j \in (at + 1)..Len(ls) : top(j) }
           IN  [section_idx |-> at,
                insert_idx |-> IF after = {} THEN Len(ls)
                               ELSE (CHOOSE j \in after : \A m \in after : j <= m) - 1]

\* list.insert(at, x), at counted as the number of elements before x
InsertAt(ls, at, x) == SubSeq(ls, 1, at) \o <<x>> \o SubSeq(ls, at + 1, Len(ls))

\* insert_into_section that opens a new section without the blank separator line
InsertNoSeparator(ls, sec, block) ==
  IF find_section_indices(ls, sec).section_idx = 0
  THEN ls \o <<sec, <<>> >> \o block
  ELSE ls \o block

\* insert_into_section that leaves out the blank line after the block
InsertNoTrailingBlank(ls, sec, block) ==
  LET found == find_section_indices(ls, sec)
  IN  IF found.section_idx = 0
      THEN (IF ls # <<>> /\ Strip(ls[Len(ls)]) # <<>> THEN Append(ls, <<>>) ELSE ls)
           \o <<sec, <<>> >> \o block
      ELSE SubSeq(ls, 1, found.insert_idx)
           \o (IF Strip(ls[found.insert_idx]) # <<>> THEN << <<>> >> ELSE <<>>)
           \o block
           \o SubSeq(ls, found.insert_idx + 1, Len(ls))

\* insert_into_section(lines, section, block)
insert_into_section(ls, sec, block) ==
  LET Open(found) ==
        IF found.section_idx = 0
        THEN LET sep == IF ls # <<>> /\ Strip(ls[Len(ls)]) # <<>>
                        THEN Append(ls, <<>>) ELSE ls
                 made == sep \o <<sec, <<>> >>
             IN  [new_lines |-> made, insert_idx |-> Len(made)]
        ELSE IF found.insert_idx > 0 /\ Strip(ls[found.insert_idx]) # <<>>
             THEN [new_lines |-> InsertAt(ls, found.insert_idx, <<>>),
                   insert_idx |-> found.insert_idx + 1]
             ELSE [new_lines |-> ls, insert_idx |-> found.insert_idx]
      Place(opened) ==
        LET placed == SubSeq(opened.new_lines, 1, opened.insert_idx) \o block
                      \o SubSeq(opened.new_lines, opened.insert_idx + 1,
                                Len(opened.new_lines))
            insert_idx == opened.insert_idx + Len(block)
        IN  IF insert_idx < Len(placed) /\ Strip(placed[insert_idx + 1]) # <<>>
            THEN InsertAt(placed, insert_idx, <<>>)
            ELSE placed
  IN  Bind(Bind(find_section_indices(ls, sec), Open), Place)

\* the loop of gather_tasks over entries, from entry k on
RECURSIVE GatherFrom(_, _, _, _)
GatherFrom(entries, k, statuses, seen_blocks) ==
  IF k > Len(entries) THEN <<>>
  ELSE LET entry == entries[k]
           block_text == canonicalize_lines(entry.lines)
       IN  IF ~InList(entry.status, statuses)
           THEN GatherFrom(entries, k + 1, statuses, seen_blocks)
           ELSE IF block_text = <<>> \/ block_text \in seen_blocks
           THEN GatherFrom(entries, k + 1, statuses, seen_blocks)
           ELSE <<entry>> \o GatherFrom(entries, k + 1, statuses, seen_blocks \cup {block_text})

\* gather_tasks without the seen_blocks test
GatherAllMatching(src, statuses) ==
  LET Filter(entries) ==
        SelectSeqIdx(entries,
          { k \in 1..Len(entries) : InList(entries[k].status, statuses) }, 1)
  IN  Bind(parse_file(src), Filter)

\* gather_tasks(source_path, statuses) for a source file that exists
gather_tasks(src, statuses) ==
  LET Filter(entries) == GatherFrom(entries, 1, statuses, {})
  IN  Bind(parse_file(src), Filter)

\* existing_keys left empty
ExistingKeysNone(today, statuses) == {}

\* existing_keys of run_single_import
ExistingKeys(today, statuses) ==
  LET Keys(today_entries) ==
        { canonicalize_lines(today_entries[k].lines) :
            k \in { j \in 1..Len(today_entries) :
                      InList(today_entries[j].status, statuses) } }
  IN  Bind(parse_file(today), Keys)

\* the loop of run_single_import that fills unique_tasks, from task k on
RECURSIVE UniqueFrom(_, _, _, _)
UniqueFrom(found, k, allow_duplicates, existing_keys) ==
  IF k > Len(found) THEN <<>>
  ELSE LET block_key == canonicalize_lines(found[k].lines)
       IN  IF block_key = <<>>
           THEN UniqueFrom(found, k + 1, allow_duplicates, existing_keys)
           ELSE IF ~allow_duplicates /\ block_key \in existing_keys
           THEN UniqueFrom(found, k + 1, allow_duplicates, existing_keys)
           ELSE <<found[k]>>
                \o UniqueFrom(found, k + 1, allow_duplicates, existing_keys \cup {block_key})

\* the heading chain run_single_import files an entry under
EntryChain(sp, entry) ==
  LET heading_chain == normalize_heading_chain(entry.headings)
      fallback_heading == IF Strip(entry.section) # <<>> THEN Strip(entry.section)
                          ELSE determine_section(sp, entry)
  IN  IF heading_chain = <<>> THEN <<fallback_heading>> ELSE heading_chain

\* the distinct elements of a sequence in order of first appearance
RECURSIVE FirstSeen(_, _)
FirstSeen(sq, seen) ==
  IF sq = <<>> THEN <<>>
  ELSE IF Head(sq) \in seen THEN FirstSeen(Tail(sq), seen)
  ELSE <<Head(sq)>> \o FirstSeen(Tail(sq), seen \cup {Head(sq)})

\* section_order of run_single_import
SectionOrder(sp, unique_tasks) ==
  FirstSeen([k \in 1..Len(unique_tasks) |-> determine_section(sp, unique_tasks[k])], {})

\* heading_order[section] of run_single_import
HeadingOrder(sp, unique_tasks, sec) ==
  LET Chains(mine) == FirstSeen([k \in 1..Len(mine) |-> EntryChain(sp, mine[k])], {})
  IN  Bind(SelectSeqIdx(unique_tasks,
             { k \in 1..Len(unique_tasks) :
                 determine_section(sp, unique_tasks[k]) = sec }, 1), Chains)

\* section_groups[section][heading] of run_single_import
SectionGroup(sp, unique_tasks, sec, heading) ==
  SelectSeqIdx(unique_tasks,
    { k \in 1..Len(unique_tasks) :
        /\ determine_section(sp, unique_tasks[k]) = sec
        /\ EntryChain(sp, unique_tasks[k]) = heading }, 1)

\* block_lines of one section: the heading blocks, from heading k on
RECURSIVE HeadingBlocks(_, _, _, _, _)
HeadingBlocks(sp, unique_tasks, sec, order, k) ==
  IF k > Len(order) THEN <<>>
  ELSE build_heading_block(order[k], SectionGroup(sp, unique_tasks, sec, order[k]))
       \o HeadingBlocks(sp, unique_tasks, sec, order, k + 1)

\* while block_lines and block_lines[-1] == "": block_lines.pop()
RECURSIVE PopBlank(_)
PopBlank(ls) ==
  IF ls # <<>> /\ ls[Len(ls)] = <<>> THEN PopBlank(SubSeq(ls, 1, Len(ls) - 1)) ELSE ls

\* the loop over section_order that inserts each section's block, from k on
RECURSIVE InsertSections(_, _, _, _, _)
InsertSections(sp, unique_tasks, order, k, today_lines) ==
  IF k > Len(order) THEN today_lines
  ELSE LET Blocks(heading_order) ==
             PopBlank(HeadingBlocks(sp, unique_tasks, order[k], heading_order, 1))
           Rest(new_lines) == InsertSections(sp, unique_tasks, order, k + 1, new_lines)
           Insert(block_lines) ==
             Bind(insert_into_section(today_lines, order[k], block_lines), Rest)
       IN  Bind(Bind(HeadingOrder(sp, unique_tasks, order[k]), Blocks), Insert)

\* WriteLines with the trailing whitespace of every line removed
WriteLinesStripsAll(ls) ==
  LET keep == { k \in 1..Len(ls) : Strip(ls[k]) # <<>> }
  IN  IF keep = {} THEN << <<>> >>
      ELSE LET last == CHOOSE k \in keep : \A j \in keep : j <= k
           IN  [k \in 1..last |-> RStrip(ls[k])]

\* the lines read back from write_text("\n".join(lines).rstrip() + "\n")
WriteLines(ls) ==
  LET keep == { k \in 1..Len(ls) : Strip(ls[k]) # <<>> }
  IN  IF keep = {} THEN << <<>> >>
      ELSE LET last == CHOOSE k \in keep : \A j \in keep : j <= k
           IN  Append(SubSeq(ls, 1, last - 1), RStrip(ls[last]))

\* run_single_import(spec, dry_run=False) on a source and a today file that exist:
\* the value returned, TODAY_FILE afterwards and unique_tasks
run_single_import(sp, src, today) ==
  LET nothing == [ret |-> 0, today |-> today, unique |-> <<>>]
      Write(today_lines) == WriteLines(today_lines)
      Group(unique_tasks) ==
        IF unique_tasks = <<>> THEN nothing
        ELSE LET Place(section_order) ==
                   InsertSections(sp, unique_tasks, section_order, 1, today)
             IN  [ret |-> Len(unique_tasks),
                  today |-> Bind(Bind(SectionOrder(sp, unique_tasks), Place), Write),
                  unique |-> unique_tasks]
      Dedup(found) ==
        IF found = <<>> THEN nothing
        ELSE LET Unique(existing_keys) ==
                   UniqueFrom(found, 1, sp.allow_duplicates, existing_keys)
             IN  Bind(Bind(ExistingKeys(today, sp.statuses), Unique), Group)
  IN  Bind(gather_tasks(src, sp.statuses), Dedup)

\* the sections of a dry run's preview, from section k of section_order on: each
\* with the heading groups the loop over heading_order[section] prints
RECURSIVE PreviewSections(_, _, _, _)
PreviewSections(sp, unique_tasks, order, k) ==
  IF k > Len(order) THEN <<>>
  ELSE LET Groups(heading_order) ==
             [h \in 1..Len(heading_order) |->
                [heading |-> heading_order[h],
                 entries |-> SectionGroup(sp, unique_tasks, order[k], heading_order[h])]]
       IN  << [section |-> order[k],
               groups |-> Bind(HeadingOrder(sp, unique_tasks, order[k]), Groups)] >>
           \o PreviewSections(sp, unique_tasks, order, k + 1)

\* a dry run that goes on to write TODAY_FILE as a real run does
DryRunThatWrites(sp, src, today) ==
  LET real == run_single_import(sp, src, today)
  IN  [ret |-> real.ret, today |-> real.today, unique |-> real.unique,
       preview |-> PreviewSections(sp, real.unique, SectionOrder(sp, real.unique), 1)]

\* run_single_import(spec, dry_run=True) on a source and a today file that exist:
\* the value returned, TODAY_FILE afterwards, unique_tasks and the preview
dry_run_single_import(sp, src, today) ==
  LET nothing == [ret |-> 0, today |-> today, unique |-> <<>>, preview |-> <<>>]
      Group(unique_tasks) ==
        IF unique_tasks = <<>> THEN nothing
        ELSE LET Preview(section_order) == PreviewSections(sp, unique_tasks, section_order, 1)
             IN  [ret |-> 0,
                  today |-> today,
                  unique |-> unique_tasks,
                  preview |-> Bind(SectionOrder(sp, unique_tasks), Preview)]
      Dedup(found) ==
        IF found = <<>> THEN nothing
        ELSE LET Unique(existing_keys) ==
                   UniqueFrom(found, 1, sp.allow_duplicates, existing_keys)
             IN  Bind(Bind(ExistingKeys(today, sp.statuses), Unique), Group)
  IN  Bind(gather_tasks(src, sp.statuses), Dedup)

\* ------------------------------------------------------- sync_completed

\* file_path.stem of TODAY_FILE and of IN_PROGRESS_FILE
TodayStem == <<"02.1_today">>

InProgressStem == <<"03_in_progress">>

\* date.today().isoformat()
today_str == "2024-05-06"

\* a token that TASK_REGEX's x matches, IGNORECASE
IsX(c) == c \in {"x", "X"}

\* TASK_REGEX.search(line): the index of the first "[x]", 0 when there is none
TaskRegexAt(line) ==
  LET hits == { k \in 1..(Len(line) - 2) :
                  line[k] = "[" /\ IsX(line[k + 1]) /\ line[k + 2] = "]" }
  IN  IF hits = {} THEN 0 ELSE CHOOSE k \in hits : \A j \in hits : k <= j

\* " ".join(words): every run of whitespace of a stripped text becomes one space
RECURSIVE JoinWords(_)
JoinWords(s) ==
  IF s = <<>> THEN <<>>
  ELSE IF IsWs(Head(s)) THEN <<SP>> \o JoinWords(LStrip(Tail(s)))
  ELSE <<Head(s)>> \o JoinWords(Tail(s))

\* normalize_task(text)
normalize_task(text) == JoinWords(Strip(text))

\* extract_task_text(line)
extract_task_text(line) ==
  LET at == TaskRegexAt(line)
  IN  IF at > 0 THEN normalize_task(SubSeq(line, at + 3, Len(line)))
      ELSE normalize_task(line)

\* the index of a section in section_order, 0 when it is not there
SectionIndex(section_order, name) ==
  LET hits == { k \in 1..Len(section_order) : section_order[k] = name }
  IN  IF hits = {} THEN 0 ELSE CHOOSE k \in hits : TRUE

\* section_order, section_entries and section_tasks with the section added when
\* it is not there yet; entries and tasks are listed in section_order's order
WithSection(log, name) ==
  IF SectionIndex(log.section_order, name) # 0 THEN log
  ELSE [log EXCEPT !.section_order = Append(@, name),
                   !.section_entries = Append(@, <<>>),
                   !.section_tasks = Append(@, {})]

\* one pass of the loop of load_completed, over the line raw_line
LoadStep(raw_line, log) ==
  LET stripped == Strip(raw_line)
  IN  IF stripped = <<>> THEN log
      ELSE IF LStrip(raw_line) = raw_line
      THEN [WithSection(log, stripped) EXCEPT !.current_section = stripped]
      ELSE IF log.current_section = <<>> THEN log
      ELSE LET at == SectionIndex(log.section_order, log.current_section)
               entry_line == RStrip(raw_line)
           IN  [log EXCEPT !.section_entries[at] = Append(@, entry_line),
                           !.section_tasks[at] = @ \cup {extract_task_text(entry_line)}]

\* the loop of load_completed over the lines of COMPLETED_FILE, from line k on
RECURSIVE LoadFrom(_, _, _)
LoadFrom(ls, k, log) ==
  IF k > Len(ls) THEN log
  ELSE LET Rest(nx) == LoadFrom(ls, k + 1, nx) IN Bind(LoadStep(ls[k], log), Rest)

\* load_completed() on the lines of COMPLETED_FILE, none when it does not exist
load_completed(ls) ==
  LoadFrom(ls, 1, [section_order |-> <<>>, section_entries |-> <<>>,
                   section_tasks |-> <<>>, current_section |-> <<>>])

\* TaskEntry(section, text, file_path, line_index) of sync_completed; the file
\* is named by its stem and line_index is 1-based
CheckedTask(sec, text, file, line_index) ==
  [section |-> sec, text |-> text, file |-> file, line_index |-> line_index]

\* one pass of the loop of sync_completed.extract_tasks_from_lines over line n of ls,
\* on st = [tasks, current_section]
ExtractStepRoot(ls, n, stem, st) ==
  LET raw_line == ls[n]
      stripped == Strip(raw_line)
      at == TaskRegexAt(raw_line)
      task_text == normalize_task(SubSeq(raw_line, at + 3, Len(raw_line)))
      section_name == IF st.current_section # <<>> THEN st.current_section ELSE stem
  IN  IF stripped = <<>> THEN st
      ELSE IF at > 0
      THEN (IF task_text = <<>> THEN st
            ELSE [st EXCEPT !.tasks = Append(@, CheckedTask(section_name, task_text, stem, n))])
      ELSE IF LStrip(raw_line) = raw_line THEN [st EXCEPT !.current_section = stripped]
      ELSE st

\* number of leading tokens of s that are decimal digits
RECURSIVE DigitRun(_)
DigitRun(s) ==
  IF s # <<>> /\ Head(s) \in {"0", "1", "2", "3", "4", "5", "6", "7", "8", "9"}
  THEN 1 + DigitRun(Tail(s)) ELSE 0

\* s without the match of BULLET_PREFIX_REGEX, ^(?:[-*+]\s+|\d+[.)]\s+), lstripped
StripBullet(s) ==
  LET d == DigitRun(s)
  IN  IF Len(s) >= 2 /\ s[1] \in {"-", "*", "+"} /\ IsWs(s[2])
      THEN LStrip(SubSeq(s, 2, Len(s)))
      ELSE IF d >= 1 /\ Len(s) >= d + 2 /\ s[d + 1] \in {".", ")"} /\ IsWs(s[d + 2])
      THEN LStrip(SubSeq(s, d + 2, Len(s)))
      ELSE s

\* remainder.lstrip(" \t:-")
RECURSIVE LStripMarks(_)
LStripMarks(s) ==
  IF s # <<>> /\ Head(s) \in {SP, TAB, ":", "-"} THEN LStripMarks(Tail(s)) ELSE s

\* parse_checked_task(raw_line) of scripts/sync_completed; <<>> stands for None
parse_checked_task(raw_line) ==
  LET stripped == StripBullet(LStrip(raw_line))
  IN  IF stripped = <<>> THEN <<>>
      ELSE IF Len(stripped) >= 3 /\ stripped[1] = "[" /\ IsX(stripped[2]) /\ stripped[3] = "]"
      THEN normalize_task(LStripMarks(SubSeq(stripped, 4, Len(stripped))))
      ELSE IF IsX(stripped[1])
              /\ (Len(stripped) = 1 \/ stripped[2] \in {SP, TAB, "-", ":"})
      THEN normalize_task(LStripMarks(Tail(stripped)))
      ELSE <<>>

\* while context_stack and indent <= context_stack[-1][0]: context_stack.pop()
RECURSIVE PopContext(_, _)
PopContext(context_stack, indent) ==
  IF context_stack # <<>> /\ indent <= context_stack[Len(context_stack)].indent
  THEN PopContext(SubSeq(context_stack, 1, Len(context_stack) - 1), indent)
  ELSE context_stack

\* " / ".join(parts)
RECURSIVE JoinSlash(_)
JoinSlash(parts) ==
  IF parts = <<>> THEN <<>>
  ELSE IF Len(parts) = 1 THEN parts[1]
  ELSE parts[1] \o <<SP, "/", SP>> \o JoinSlash(Tail(parts))

\* one pass of the loop of scripts/sync_completed.extract_tasks_from_lines over
\* line n, on st = [tasks, current_section, context_stack]
ExtractStepScripts(ls, n, stem, st) ==
  LET raw_line == ls[n]
      stripped == Strip(raw_line)
      indent == leading_indent(raw_line)
      task_text == parse_checked_task(raw_line)
      popped == PopContext(st.context_stack, indent)
      section_name == IF st.current_section # <<>> THEN st.current_section ELSE stem
      full_text == JoinSlash([k \in 1..Len(popped) |-> popped[k].text] \o <<task_text>>)
      context_text == normalize_task(StripBullet(stripped))
  IN  IF stripped = <<>> THEN st
      ELSE IF task_text # <<>>
      THEN [st EXCEPT !.context_stack = popped,
                      !.tasks = Append(@, CheckedTask(section_name, full_text, stem, n))]
      ELSE IF LStrip(raw_line) = raw_line
      THEN [st EXCEPT !.current_section = stripped, !.context_stack = <<>>]
      ELSE IF context_text = <<>> THEN st
      ELSE [st EXCEPT !.context_stack =
                        Append(popped, [indent |-> indent, text |-> context_text])]

\* the loop of extract_tasks_from_lines of either script, from line n on
RECURSIVE ExtractFrom(_, _, _, _, _)
ExtractFrom(script, ls, n, stem, st) ==
  IF n > Len(ls) THEN st.tasks
  ELSE LET Rest(nx) == ExtractFrom(script, ls, n + 1, stem, nx)
       IN  Bind(IF script = "scripts" THEN ExtractStepScripts(ls, n, stem, st)
                ELSE ExtractStepRoot(ls, n, stem, st), Rest)

\* extract_tasks_from_lines(lines, file_path)
extract_tasks_from_lines(script, ls, stem) ==
  ExtractFrom(script, ls, 1, stem,
              [tasks |-> <<>>, current_section |-> <<>>, context_stack |-> <<>>])

\* gather_source_tasks() with TODAY_FILE present; of the later SOURCE_FILES only
\* IN_PROGRESS_FILE is taken to exist (an absent file and an empty one give the same)
gather_source_tasks(script, today, in_progress) ==
  extract_tasks_from_lines(script, today, TodayStem)
  \o extract_tasks_from_lines(script, in_progress, InProgressStem)

\* the text sync_completed looks up and records for a task: scripts/sync_completed
\* puts the source label in front
RecordedText(script, task) ==
  IF script = "scripts" THEN <<"[">> \o task.file \o <<"]", SP>> \o task.text
  ELSE task.text

\* f"\t[{today_str}] [x] {task_text}"
EntryLine(text) == <<TAB, "[", today_str, "]", SP, "[", "x", "]", SP>> \o text

\* AddStep looking up the undecorated task text in the signature set
AddStepLooksUpBareText(script, task, st) ==
  LET text == RecordedText(script, task)
      log == WithSection(st.log, task.section)
      at == SectionIndex(log.section_order, task.section)
  IN  IF task.text \in log.section_tasks[at] THEN [st EXCEPT !.log = log]
      ELSE [log |-> [log EXCEPT !.section_entries[at] = Append(@, EntryLine(text)),
                                !.section_tasks[at] = @ \cup {text}],
            tasks_added |-> Append(st.tasks_added, [section |-> task.section, text |-> text])]

\* AddStep without the signature lookup: every task found is recorded
AddStepNoSkip(script, task, st) ==
  LET text == RecordedText(script, task)
      log == WithSection(st.log, task.section)
      at == SectionIndex(log.section_order, task.section)
  IN  [log |-> [log EXCEPT !.section_entries[at] = Append(@, EntryLine(text)),
                           !.section_tasks[at] = @ \cup {text}],
       tasks_added |-> Append(st.tasks_added, [section |-> task.section, text |-> text])]

\* one pass of the loop of sync_completed over tasks, on st = [log, tasks_added]
AddStep(script, task, st) ==
  LET text == RecordedText(script, task)
      log == WithSection(st.log, task.section)
      at == SectionIndex(log.section_order, task.section)
  IN  IF text \in log.section_tasks[at] THEN [st EXCEPT !.log = log]
      ELSE [log |-> [log EXCEPT !.section_entries[at] = Append(@, EntryLine(text)),
                                !.section_tasks[at] = @ \cup {text}],
            tasks_added |-> Append(st.tasks_added, [section |-> task.section, text |-> text])]

\* the loop of sync_completed over tasks, from task k on
RECURSIVE AddFrom(_, _, _, _)
AddFrom(script, found, k, st) ==
  IF k > Len(found) THEN st
  ELSE LET Rest(nx) == AddFrom(script, found, k + 1, nx)
       IN  Bind(AddStep(script, found[k], st), Rest)

\* LogLines without the blank line between sections
RECURSIVE LogLinesNoBlank(_, _)
LogLinesNoBlank(log, k) ==
  IF k > Len(log.section_order) THEN <<>>
  ELSE <<log.section_order[k]>>
       \o [m \in 1..Len(log.section_entries[k]) |->
             LET entry == log.section_entries[k][m]
             IN  RStrip(IF entry[1] # TAB THEN <<TAB>> \o LStrip(entry) ELSE entry)]
       \o LogLinesNoBlank(log, k + 1)

\* the lines sync_completed builds for COMPLETED_FILE, from section k on
RECURSIVE LogLines(_, _)
LogLines(log, k) ==
  IF k > Len(log.section_order) THEN <<>>
  ELSE <<log.section_order[k]>>
       \o [m \in 1..Len(log.section_entries[k]) |->
             LET entry == log.section_entries[k][m]
             IN  RStrip(IF entry[1] # TAB THEN <<TAB>> \o LStrip(entry) ELSE entry)]
       \o (IF k # Len(log.section_order) THEN << <<>> >> ELSE <<>>)
       \o LogLines(log, k + 1)

\* the lines of one source file after remove_tasks_from_sources
RemoveFrom(ls, stem, found) ==
  LET indexes == { found[k].line_index : k \in { j \in 1..Len(found) : found[j].file = stem } }
      new_lines == SelectSeqIdx(ls, (1..Len(ls)) \ indexes, 1)
      keep == { k \in 1..Len(new_lines) : Strip(new_lines[k]) # <<>> }
  IN  IF indexes = {} THEN ls
      ELSE IF keep = {} THEN <<>>
      ELSE LET last == CHOOSE k \in keep : \A j \in keep : j <= k
           IN  Append(SubSeq(new_lines, 1, last - 1), RStrip(new_lines[last]))

\* sync_completed() of either script: what it returns and the three files afterwards
sync_completed(script, today, in_progress, completed) ==
  LET Finish(found) ==
        IF found = <<>>
        THEN [total_found |-> 0, found |-> found, tasks_added |-> <<>>, completed |-> completed,
              today |-> today, in_progress |-> in_progress]
        ELSE LET Out(st) ==
                   [total_found |-> Len(found),
                    found |-> found,
                    tasks_added |-> st.tasks_added,
                    completed |-> IF st.tasks_added # <<>> THEN WriteLines(LogLines(st.log, 1))
                                  ELSE completed,
                    today |-> RemoveFrom(today, TodayStem, found),
                    in_progress |-> RemoveFrom(in_progress, InProgressStem, found)]
             IN  Bind(AddFrom(script, found, 1,
                              [log |-> load_completed(completed), tasks_added |-> <<>>]), Out)
  IN  Bind(gather_source_tasks(script, today, in_progress), Finish)

\* ------------------------------------------ status filters and the config

\* an empty section_map
NoMap == [n \in {} |-> <<>>]

\* ImportSpec(name, source_path, section, statuses, allow_duplicates,
\*            use_source_section, section_map)
ImportSpec(sec, statuses, allow_duplicates, use_source_section, section_map) ==
  [section |-> sec, statuses |-> statuses, allow_duplicates |-> allow_duplicates,
   use_source_section |-> use_source_section, section_map |-> section_map]

\* STATUS_ORDER
STATUS_ORDER == <<"blocked", "in-progress", "waiting", "delegated", "done">>

\* STATUS_ALIASES
STATUS_ALIASES ==
  [k \in {"b", "blocked", "block", "i", "ip", "in-progress", "inprogress", "progress",
          "w", "wait", "waiting", "hold", "d", "delegate", "delegated",
          "x", "done", "complete", "completed", "t", "transfer"} |->
     CASE k \in {"b", "blocked", "block"} -> "blocked"
       [] k \in {"i", "ip", "in-progress", "inprogress", "progress"} -> "in-progress"
       [] k \in {"w", "wait", "waiting", "hold"} -> "waiting"
       [] k \in {"d", "delegate", "delegated"} -> "delegated"
       [] k \in {"x", "done", "complete", "completed"} -> "done"
       [] k \in {"t", "transfer"} -> "transfer"]

\* str.lower() on the words of the status filters
LowerWord(w) ==
  CASE w = "In-Progress" -> "in-progress"
    [] w = "Done" -> "done"
    [] w = "Blocked" -> "blocked"
    [] OTHER -> Lower(w)

\* raw.split(","): a raw filter is a sequence of words, whitespace and ","
RECURSIVE SplitComma(_)
SplitComma(raw) ==
  LET at == { k \in 1..Len(raw) : raw[k] = "," }
  IN  IF at = {} THEN <<raw>>
      ELSE LET first == CHOOSE k \in at : \A j \in at : k <= j
           IN  <<SubSeq(raw, 1, first - 1)>> \o SplitComma(SubSeq(raw, first + 1, Len(raw)))

\* resolve_status_token(token), "" for None
resolve_status_token(token) ==
  LET key == Strip(token)
  IN  IF key = <<>> THEN ""
      ELSE IF Len(key) = 1 /\ LowerWord(key[1]) \in DOMAIN STATUS_ALIASES
      THEN STATUS_ALIASES[LowerWord(key[1])]
      ELSE ""

\* the tokens of all the raw filters, in order
RECURSIVE FilterTokens(_)
FilterTokens(raw_filters) ==
  IF raw_filters = <<>> THEN <<>>
  ELSE SplitComma(Head(raw_filters)) \o FilterTokens(Tail(raw_filters))

\* NormalizeFrom that passes over a token it cannot resolve
RECURSIVE NormalizeSkipsUnknown(_, _, _)
NormalizeSkipsUnknown(tokens, k, selected) ==
  IF k > Len(tokens) THEN [exit |-> 0, selected |-> selected]
  ELSE LET status == resolve_status_token(tokens[k])
       IN  IF status = "" THEN NormalizeSkipsUnknown(tokens, k + 1, selected)
           ELSE IF InList(status, selected) THEN NormalizeSkipsUnknown(tokens, k + 1, selected)
           ELSE NormalizeSkipsUnknown(tokens, k + 1, Append(selected, status))

\* the loop of normalize_status_filters from token k on: exit 2 is sys.exit(2)
RECURSIVE NormalizeFrom(_, _, _)
NormalizeFrom(tokens, k, selected) ==
  IF k > Len(tokens) THEN [exit |-> 0, selected |-> selected]
  ELSE LET status == resolve_status_token(tokens[k])
       IN  IF status = "" THEN [exit |-> 2, selected |-> <<>>]
           ELSE IF InList(status, selected) THEN NormalizeFrom(tokens, k + 1, selected)
           ELSE NormalizeFrom(tokens, k + 1, Append(selected, status))

\* normalize_status_filters(raw_filters): <<>> stands for None and for []
normalize_status_filters(raw_filters) ==
  IF raw_filters = <<>> THEN [exit |-> 0, selected |-> STATUS_ORDER]
  ELSE NormalizeFrom(FilterTokens(raw_filters), 1, <<>>)

\* a sequence without the repeats of its elements, first occurrences kept in order
FirstOccurrences(sq) ==
  SelectSeqIdx(sq, { k \in 1..Len(sq) : \A j \in 1..(k - 1) : sq[j] # sq[k] }, 1)

\* a JSON value of the config: a list of items, a string, or a missing key
JList(items) == [kind |-> "list", items |-> items, text |-> <<>>]

JString(text) == [kind |-> "str", items |-> <<>>, text |-> text]

JAbsent == [kind |-> "absent", items |-> <<>>, text |-> <<>>]

\* an object of status_outputs; path "" is a missing path
OutputEntry(path, statuses) == [kind |-> "dict", path |-> path, statuses |-> statuses]

\* an object of import_targets
TargetEntry(name, source, statuses) ==
  [kind |-> "dict", name |-> name, source |-> source, statuses |-> statuses]

\* an entry of a config list that is not an object
NotAnObject == [kind |-> "str", path |-> "", name |-> "", source |-> "", statuses |-> JAbsent]

\* default_status_outputs()
default_status_outputs ==
  << OutputEntry("03_in_progress_status.txt", JList(<< <<"in-progress">>, <<"blocked">> >>)),
     OutputEntry("03_blocked.txt", JList(<< <<"blocked">> >>)) >>

\* data.get(key, default)
JGet(value, default) == IF value.kind = "absent" THEN JList(default) ELSE value

\* load_config(config_path): ok FALSE is the ValueError raised
load_config(file) ==
  IF ~file.exists
  THEN [ok |-> TRUE, extra_files |-> <<>>, glob_patterns |-> <<>>,
        status_outputs |-> default_status_outputs, import_targets |-> <<>>]
  ELSE LET extra_files == JGet(file.extra_files, <<>>)
           glob_patterns == JGet(file.glob_patterns, <<>>)
           status_outputs == JGet(file.status_outputs, default_status_outputs)
           import_targets == JGet(file.import_targets, <<>>)
           failed == [ok |-> FALSE, extra_files |-> <<>>, glob_patterns |-> <<>>,
                      status_outputs |-> <<>>, import_targets |-> <<>>]
       IN  IF extra_files.kind # "list" \/ glob_patterns.kind # "list" THEN failed
           ELSE IF status_outputs.kind # "list" THEN failed
           ELSE IF import_targets.kind # "list" THEN failed
           ELSE [ok |-> TRUE,
                 extra_files |-> extra_files.items,
                 glob_patterns |-> glob_patterns.items,
                 status_outputs |-> IF status_outputs.items # <<>> THEN status_outputs.items
                                    ELSE default_status_outputs,
                 import_targets |-> import_targets.items]

\* the loop of parse_output_entry over statuses_value: <<>> is the ValueError
RECURSIVE OutputStatusesFrom(_, _, _)
OutputStatusesFrom(statuses_value, k, normalized_statuses) ==
  IF k > Len(statuses_value) THEN normalized_statuses
  ELSE LET status_name == resolve_status_token(statuses_value[k])
       IN  IF status_name = "" THEN <<>>
           ELSE OutputStatusesFrom(statuses_value, k + 1,
                                   IF InList(status_name, normalized_statuses)
                                   THEN normalized_statuses
                                   ELSE Append(normalized_statuses, status_name))

\* parse_output_entry(root, entry): the target's path and statuses, ok FALSE is
\* the ValueError raised
parse_output_entry(entry) ==
  LET failed == [ok |-> FALSE, path |-> "", statuses |-> <<>>]
  IN  IF entry.kind # "dict" THEN failed
      ELSE IF entry.path = "" THEN failed
      ELSE IF entry.statuses.kind # "list" \/ entry.statuses.items = <<>> THEN failed
      ELSE LET normalized_statuses == OutputStatusesFrom(entry.statuses.items, 1, <<>>)
           IN  IF normalized_statuses = <<>> THEN failed
               ELSE [ok |-> TRUE, path |-> entry.path, statuses |-> normalized_statuses]

\* build_output_targets(root, config): ok FALSE is the ValueError raised
build_output_targets(config) ==
  LET parsed == [k \in 1..Len(config.status_outputs) |->
                   parse_output_entry(config.status_outputs[k])]
  IN  IF \E k \in 1..Len(parsed) : ~parsed[k].ok
      THEN [ok |-> FALSE, targets |-> <<>>]
      ELSE [ok |-> TRUE, targets |-> parsed]

\* normalize_status_input(raw)
normalize_status_input(raw) ==
  IF raw.kind = "absent"
  THEN normalize_status_filters([k \in 1..Len(DEFAULT_STATUS_FILTER) |->
                                   <<DEFAULT_STATUS_FILTER[k]>>])
  ELSE IF raw.kind = "str" THEN normalize_status_filters(<<raw.text>>)
  ELSE normalize_status_filters(raw.items)

\* the entries of import_targets that build_config_targets does not skip
UsedTargets(config) ==
  SelectSeq(config.import_targets, LAMBDA entry : entry.kind = "dict" /\ entry.source # "")

\* build_config_targets(config): the name and the ImportSpec of every target,
\* ok FALSE is the ValueError raised
build_config_targets(config) ==
  LET used == UsedTargets(config)
      statuses == [k \in 1..Len(used) |-> normalize_status_input(used[k].statuses)]
  IN  IF \E k \in 1..Len(used) : statuses[k].exit # 0
      THEN [ok |-> FALSE, targets |-> <<>>]
      ELSE [ok |-> TRUE,
            targets |-> [k \in 1..Len(used) |->
                           [name |-> used[k].name,
                            spec |-> ImportSpec(DEFAULT_SECTION, statuses[k].selected,
                                                FALSE, FALSE, NoMap)]]]

\* ------------------------------------------------ the parsers' inputs

\* the lines the parsed files are made of
ParsePool ==
  { <<>>,
    <<TAB>>,
    <<"Work">>,
    <<"#", "#", SP, "Phase">>,
    <<"#", "#", "#", SP, "Step">>,
    <<"[", "1", "]", SP, "=", SP, "high">>,
    <<"[", "x", "]", SP, "Top">>,
    <<"[", "3", "]", SP, "Later">>,
    <<SP, SP, "[", "B", "]", SP, "Two">>,
    <<TAB, "[", "i", "]", SP, "Ship">>,
    <<TAB, "[", "1", "]", SP, "Ship">>,
    <<TAB, "[", "2", "]", SP, "a", "=", "b">>,
    <<TAB, TAB, "[", "2", "]", SP, "sub">>,
    <<TAB, TAB, "child">> }

\* every file of at most n lines over a pool
FilesOver(pool, n) == UNION { [1..k -> pool] : k \in 0..n }

ParseInit ==
  /\ pc = "status"
  /\ lines \in FilesOver(ParsePool, MaxLines)
  /\ idx = StatusStart.idx
  /\ section = StatusStart.section
  /\ heading_stack = StatusStart.heading_stack
  /\ tasks = StatusStart.tasks
  /\ fp_i = FpStart.i
  /\ current_section = FpStart.current_section
  /\ priorities = FpStart.priorities

\* no import is under way
ImportIdle ==
  /\ source_file = <<>>
  /\ today_file = <<>>
  /\ import_spec = <<>>
  /\ inserted_log = <<>>
  /\ today_log = <<>>
  /\ unique_log = <<>>

\* no insert_into_section call is under way
InsertIdle ==
  /\ ins_lines = <<>>
  /\ ins_section = <<>>
  /\ ins_block = <<>>
  /\ ins_result = <<>>
  /\ ins_written = <<>>

\* no file is being parsed
ParseIdle ==
  /\ lines = <<>>
  /\ idx = StatusStart.idx
  /\ section = StatusStart.section
  /\ heading_stack = StatusStart.heading_stack
  /\ tasks = StatusStart.tasks
  /\ fp_i = FpStart.i
  /\ current_section = FpStart.current_section
  /\ priorities = FpStart.priorities

\* no entry is being grouped
ChainIdle ==
  /\ nh_entry = <<>>
  /\ nh_chain = <<>>
  /\ nh_normalized = <<>>

\* no build_heading_block call is under way
BlockIdle ==
  /\ bh_chain = <<>>
  /\ bh_entries = <<>>
  /\ bh_out = <<>>

\* sync_completed is not running
SyncIdle ==
  /\ sc_script = <<>>
  /\ sc_today = <<>>
  /\ sc_in_progress = <<>>
  /\ sc_completed = <<>>
  /\ sc_log = <<>>
  /\ sc_added = <<>>
  /\ sc_found = <<>>
  /\ sc_sources = <<>>

\* no main() is running
CliIdle ==
  /\ cli_entry = ""
  /\ cli_args = <<>>
  /\ cli_config = <<>>
  /\ cli_loaded = <<>>
  /\ cli_selected = <<>>
  /\ cli_tasks = <<>>
  /\ cli_targets = <<>>
  /\ cli_specs = <<>>
  /\ cli_today = <<>>
  /\ cli_parsed = FALSE
  /\ cli_written = {}
  /\ cli_exit = -1

\* no script is being run from the shell
EntryIdle ==
  /\ ep_program = ""
  /\ ep_quiet = FALSE
  /\ ep_fs = <<>>
  /\ ep_items = <<>>
  /\ ep_reported = FALSE
  /\ ep_written = {}
  /\ ep_exit = -1

\* no dry run has printed a preview
DryIdle == dry_preview = <<>>

\* no two invocations are running at once
RaceIdle ==
  /\ rc_files = <<>>
  /\ rc_import = <<>>
  /\ rc_sync = <<>>
  /\ rc_last = ""

\* no sync is being followed write by write
StepIdle ==
  /\ sw_script = ""
  /\ sw_files = <<>>
  /\ sw_start = <<>>
  /\ sw_run = <<>>
  /\ sw_runs = 0

LateIdle == EntryIdle /\ DryIdle /\ RaceIdle /\ StepIdle

\* none of the other entry points is running
OtherIdle == BlockIdle /\ SyncIdle /\ CliIdle /\ LateIdle

Init == ParseInit /\ ImportIdle /\ InsertIdle /\ ChainIdle /\ OtherIdle

Next ==
  \/ StatusBlank
  \/ StatusLegend
  \/ StatusHeading
  \/ StatusSection
  \/ StatusContent
  \/ StatusTask
  \/ StatusReturn
  \/ FpSkip
  \/ FpSection
  \/ FpTask
  \/ FpContent
  \/ FpReturn

\* one file parsed by task_status_view.parse_file, then by filter_priority.parse_file
Spec == Init /\ [][Next]_vars

\* ------------------------------------------------- the imports' inputs

\* the lines the source files are made of
SrcPool ==
  { <<"Proj">>,
    <<"#", SP, "Title">>,
    <<"#", "#", SP, "Phase">>,
    <<TAB, "[", "i", "]", SP, "A">>,
    <<TAB, "[", "b", "]", SP, "B">>,
    <<TAB, TAB, "child">> }

\* the today files the imports start from
TodayFiles ==
  { <<>>,
    << <<"Notes">>, <<TAB, "memo">> >>,
    << DEFAULT_SECTION, <<TAB, "[", "i", "]", SP, "A">>, <<>>, <<"Later">> >>,
    << <<"Proj">>, <<>>, <<TAB, "[", "b", "]", SP, "B">>, <<TAB, TAB, "child">> >> }

\* manual_spec of main() with the default --section and --status
manual_spec == ImportSpec(DEFAULT_SECTION, DEFAULT_STATUS_FILTER, FALSE, FALSE, NoMap)

\* the import specs of the runs
ImportSpecs ==
  { manual_spec,
    ImportSpec(DEFAULT_SECTION, DEFAULT_STATUS_FILTER, TRUE, FALSE, NoMap),
    ImportSpec(DEFAULT_SECTION, <<"in-progress">>, FALSE, TRUE, NoMap),
    ImportSpec(DEFAULT_SECTION, DEFAULT_STATUS_FILTER, FALSE, FALSE,
               [n \in {<<"Proj">>} |-> <<"Mapped">>]) }

ImportInit ==
  /\ pc = "import"
  /\ source_file \in FilesOver(SrcPool, MaxSrcLines)
  /\ today_file \in TodayFiles
  /\ import_spec \in ImportSpecs
  /\ inserted_log = <<>>
  /\ today_log = <<today_file>>
  /\ unique_log = <<>>

ImportStart == ImportInit /\ ParseIdle /\ InsertIdle /\ ChainIdle /\ OtherIdle

\* one run of run_single_import(import_spec, dry_run=False)
RunSingleImport ==
  /\ pc = "import"
  /\ Len(inserted_log) < MaxRuns
  /\ \E r \in {run_single_import(import_spec, source_file, today_file)} :
         /\ today_file' = r.today
         /\ inserted_log' = Append(inserted_log, r.ret)
         /\ today_log' = Append(today_log, r.today)
         /\ unique_log' = Append(unique_log, r.unique)
  /\ UNCHANGED <<pc, source_file, import_spec, parseVars, insertVars, chainVars, otherVars>>

ImportNext == RunSingleImport

\* the same import run up to MaxRuns times on an unchanged source
SpecImport == ImportStart /\ [][ImportNext]_vars

DryInit ==
  /\ pc = "dry"
  /\ source_file \in FilesOver(SrcPool, MaxSrcLines)
  /\ today_file \in TodayFiles
  /\ import_spec \in ImportSpecs
  /\ inserted_log = <<>>
  /\ today_log = <<today_file>>
  /\ unique_log = <<>>
  /\ dry_preview = <<>>

DryStart ==
  /\ DryInit /\ ParseIdle /\ InsertIdle /\ ChainIdle /\ BlockIdle /\ SyncIdle /\ CliIdle
  /\ EntryIdle /\ RaceIdle /\ StepIdle

\* one run of run_single_import(import_spec, dry_run=True)
DryRunImport ==
  /\ pc = "dry"
  /\ \E r \in {dry_run_single_import(import_spec, source_file, today_file)} :
         /\ today_file' = r.today
         /\ inserted_log' = Append(inserted_log, r.ret)
         /\ today_log' = Append(today_log, r.today)
         /\ unique_log' = Append(unique_log, r.unique)
         /\ dry_preview' = r.preview
  /\ pc' = "dried"
  /\ UNCHANGED <<source_file, import_spec, parseVars, insertVars, chainVars, blockVars,
                 syncVars, cliVars, entryVars, raceVars, stepVars>>

DryNext == DryRunImport

\* one dry run of an import
SpecDry == DryStart /\ [][DryNext]_vars

\* ------------------------------------ normalize_heading_chain's inputs

\* longest heading chain of an entry
MaxChain == 3

\* the heading labels parse_file builds
LabelPool ==
  { <<"#", SP, "Title">>,
    <<"#", "#", SP, "Phase">>,
    <<"#", "#", "#", SP, "Step">> }

\* run_single_import before it groups an entry of unique_tasks
ChainInit ==
  /\ pc = "group"
  /\ nh_entry \in { TaskEntry("in-progress", sec, << <<TAB, "[", "i", "]", SP, "A">> >>, h) :
                      sec \in {Uncategorized, <<"Proj">>},
                      h \in FilesOver(LabelPool, MaxChain) }
  /\ nh_chain = <<"?">>
  /\ nh_normalized = <<"?">>

ChainStart == ChainInit /\ ParseIdle /\ ImportIdle /\ InsertIdle /\ OtherIdle

\* heading_chain = normalize_heading_chain(entry.headings.copy())
NormalizeHeadingChain ==
  /\ pc = "group"
  /\ nh_normalized' = normalize_heading_chain(nh_entry.headings)
  /\ pc' = "fallback"
  /\ UNCHANGED <<nh_entry, nh_chain, parseVars, importVars, insertVars, otherVars>>

\* if not heading_chain: heading_chain = [fallback_heading]
ChooseHeadingChain ==
  /\ pc = "fallback"
  /\ nh_chain' = EntryChain(manual_spec, nh_entry)
  /\ pc' = "grouped"
  /\ UNCHANGED <<nh_entry, nh_normalized, parseVars, importVars, insertVars, otherVars>>

ChainNext == NormalizeHeadingChain \/ ChooseHeadingChain

\* one entry of unique_tasks given its heading chain by run_single_import
SpecChain == ChainStart /\ [][ChainNext]_vars

\* -------------------------------------- insert_into_section's inputs

\* the lines the destination of insert_into_section is made of
InsertPool ==
  { <<>>,
    <<TAB>>,
    <<"Work">>,
    <<"Work", SP>>,
    <<"Other">>,
    <<TAB, "Work">>,
    <<TAB, "[", "i", "]", SP, "A">> }

\* the blocks inserted
InsertBlocks ==
  { <<>>,
    << <<TAB, "[", "i", "]", SP, "X">> >>,
    << <<TAB, "Proj">>, <<TAB, TAB, "[", "i", "]", SP, "X">>, <<>>,
       <<TAB, TAB, "[", "b", "]", SP, "Y">> >> }

InsertInit ==
  /\ pc = "insert"
  /\ ins_lines \in FilesOver(InsertPool, MaxLines)
  /\ ins_section \in {<<"Work">>, <<"New">>}
  /\ ins_block \in InsertBlocks
  /\ ins_result = <<>>
  /\ ins_written = <<>>

InsertStart == InsertInit /\ ParseIdle /\ ImportIdle /\ ChainIdle /\ OtherIdle

\* new_lines = insert_into_section(lines, section, block)
InsertIntoSection ==
  /\ pc = "insert"
  /\ ins_result' = insert_into_section(ins_lines, ins_section, ins_block)
  /\ pc' = "inserted"
  /\ UNCHANGED <<ins_lines, ins_section, ins_block, ins_written, parseVars, importVars,
                 chainVars, otherVars>>

\* TODAY_FILE.write_text("\n".join(today_lines).rstrip() + "\n") of
\* run_single_import, after the insert of the one section of an import
WriteToday ==
  /\ pc = "inserted"
  /\ ins_written' = WriteLines(ins_result)
  /\ pc' = "written"
  /\ UNCHANGED <<ins_lines, ins_section, ins_block, ins_result, parseVars, importVars,
                 chainVars, otherVars>>

InsertNext == InsertIntoSection \/ WriteToday

\* insert_into_section called once on a destination, a section name and a block,
\* and the lines written to the today file
SpecInsert == InsertStart /\ [][InsertNext]_vars

\* -------------------------------------- build_heading_block's inputs

\* most entries of one heading group
MaxEntries == 2

\* the entries of the groups, with their blocks as parse_file stores them
EntryPool ==
  { TaskEntry("in-progress", <<"Proj">>, << <<TAB, "[", "i", "]", SP, "A">> >>, <<>>),
    TaskEntry("in-progress", <<"Proj">>,
              << <<TAB, "[", "i", "]", SP, "A">>, <<TAB, TAB, "child">> >>, <<>>),
    TaskEntry("blocked", <<"Proj">>, << <<"[", "b", "]", SP, "B">>, <<>> >>, <<>>),
    TaskEntry("blocked", <<"Proj">>,
              << <<SP, SP, "[", "b", "]", SP, "B">>, <<>>, <<TAB, "note">> >>, <<>>) }

BlockInit ==
  /\ pc = "build"
  /\ bh_chain \in FilesOver(LabelPool, MaxChain)
  /\ bh_entries \in FilesOver(EntryPool, MaxEntries)
  /\ bh_out = <<>>

BlockStart ==
  /\ BlockInit /\ ParseIdle /\ ImportIdle /\ InsertIdle /\ ChainIdle /\ SyncIdle /\ CliIdle
  /\ LateIdle

\* block_lines.extend(build_heading_block(list(heading), entries))
BuildHeadingBlock ==
  /\ pc = "build"
  /\ bh_out' = build_heading_block(bh_chain, bh_entries)
  /\ pc' = "built"
  /\ UNCHANGED <<bh_chain, bh_entries, parseVars, importVars, insertVars, chainVars, syncVars,
                 cliVars, lateVars>>

BlockNext == BuildHeadingBlock

\* build_heading_block called once on a heading chain and a list of entries
SpecBlock == BlockStart /\ [][BlockNext]_vars

\* ------------------------------------------------ sync_completed's inputs

\* longest TODAY_FILE given to sync_completed
MaxSyncLines == 3

\* the lines TODAY_FILE is made of
SyncPool ==
  { <<"Work">>,
    <<TAB, "[", "x", "]", SP, "Ship", SP, "release">>,
    <<TAB, TAB, "notes">>,
    <<TAB, "x", SP, "Ship", SP, "release">>,
    <<TAB, "note", SP, "[", "x", "]", SP, "Ship", SP, "release">>,
    <<TAB, TAB, "-", SP, "[", "X", "]", SP, SP, "Fix", TAB, "bug">> }

\* IN_PROGRESS_FILE: absent, or one checked line under no section
InProgressFiles ==
  { <<>>,
    << <<"[", "x", "]", SP, "Ship", SP, "release">> >> }

\* an entry line of an earlier day
OldEntry(text) == <<TAB, "[", "2024-05-01", "]", SP, "[", "x", "]", SP>> \o text

\* COMPLETED_FILE before the first run
CompletedFiles ==
  { <<>>,
    << <<"Work">>, OldEntry(<<"Ship", SP, "release">>) >>,
    << <<"Work">>, OldEntry(<<"[", "02.1_today", "]", SP, "Ship", SP, "release">>) >>,
    << OldEntry(<<"Early">>), <<"Work">>,
       <<SP, SP, "[", "2024-05-01", "]", SP, "[", "x", "]", SP, "Fix", SP, "bug">>,
       <<>>, <<"Done">> >>,
    << <<"Work">>, OldEntry(<<"Ship", SP, "release">>), <<TAB, "Ship", SP, "release">> >> }

SyncInit ==
  /\ pc = "sync"
  /\ sc_script \in {"root", "scripts"}
  /\ sc_today \in FilesOver(SyncPool, MaxSyncLines)
  /\ sc_in_progress \in InProgressFiles
  /\ sc_completed \in CompletedFiles
  /\ sc_log = <<sc_completed>>
  /\ sc_added = <<>>
  /\ sc_found = <<>>
  /\ sc_sources = << [today |-> sc_today, in_progress |-> sc_in_progress] >>

SyncStart ==
  /\ SyncInit /\ ParseIdle /\ ImportIdle /\ InsertIdle /\ ChainIdle /\ BlockIdle /\ CliIdle
  /\ LateIdle

\* one run of sync_completed()
SyncCompleted ==
  /\ pc = "sync"
  /\ Len(sc_added) < MaxRuns
  /\ \E r \in {sync_completed(sc_script, sc_today, sc_in_progress, sc_completed)} :
       /\ sc_today' = r.today
       /\ sc_in_progress' = r.in_progress
       /\ sc_completed' = r.completed
       /\ sc_log' = Append(sc_log, r.completed)
       /\ sc_added' = Append(sc_added, r.tasks_added)
       /\ sc_found' = Append(sc_found, r.found)
       /\ sc_sources' = Append(sc_sources, [today |-> r.today, in_progress |-> r.in_progress])
  /\ UNCHANGED <<pc, sc_script, parseVars, importVars, insertVars, chainVars, blockVars, cliVars,
                 lateVars>>

SyncNext == SyncCompleted

\* sync_completed run up to MaxRuns times in a row
SpecSync == SyncStart /\ [][SyncNext]_vars

\* ------------------------------------------------------ main()'s inputs

\* most --status options on a command line
MaxFilters == 2

\* the values given to --status
FilterPool ==
  { <<SP, "B", ",", SP, "In-Progress">>,
    <<"x", ",", "Done">>,
    <<"bogus">>,
    <<>>,
    <<"blocked", ",">>,
    <<"i", ",", "bogus">> }

\* a task_sources.json of the right shape
ValidConfig ==
  [exists |-> TRUE,
   extra_files |-> JList(<<>>),
   glob_patterns |-> JList(<<>>),
   status_outputs |-> JList(<< OutputEntry("out.txt", JList(<< <<"Blocked">>, <<"b">> >>)) >>),
   import_targets |-> JList(<< TargetEntry("T", "work.txt", JList(<< <<"i">> >>)) >>)]

\* task_sources.json: missing, of the right shape, or of a wrong one
ConfigFiles ==
  { [exists |-> FALSE, extra_files |-> JAbsent, glob_patterns |-> JAbsent,
     status_outputs |-> JAbsent, import_targets |-> JAbsent],
    ValidConfig,
    [ValidConfig EXCEPT !.status_outputs = JAbsent,
                        !.import_targets =
                          JList(<< TargetEntry("T", "work.txt", JString(<<"x", ",", "b">>)) >>)],
    [ValidConfig EXCEPT !.extra_files = JString(<<"x">>)],
    [ValidConfig EXCEPT !.glob_patterns = JString(<<"x">>)],
    [ValidConfig EXCEPT !.status_outputs = JString(<<"x">>)],
    [ValidConfig EXCEPT !.import_targets = JString(<<"x">>)],
    [ValidConfig EXCEPT !.status_outputs =
                          JList(<< OutputEntry("out.txt", JList(<< <<"bogus">> >>)) >>)],
    [ValidConfig EXCEPT !.status_outputs = JList(<< NotAnObject >>)],
    [ValidConfig EXCEPT !.status_outputs =
                          JList(<< OutputEntry("", JList(<< <<"blocked">> >>)) >>)],
    [ValidConfig EXCEPT !.import_targets =
                          JList(<< TargetEntry("T", "work.txt", JList(<< <<"bogus">> >>)) >>)] }

\* the command lines of task_status_view
StatusViewArgs ==
  { [status |-> status, list_sources |-> list_sources, write_files |-> write_files,
     source |-> "", targets |-> <<>>, all_configured |-> FALSE] :
      status \in FilesOver(FilterPool, MaxFilters),
      list_sources \in BOOLEAN, write_files \in BOOLEAN }

\* the command lines of import_external_tasks
ImportArgs ==
  { [status |-> status, list_sources |-> FALSE, write_files |-> FALSE,
     source |-> source, targets |-> targets, all_configured |-> all_configured] :
      status \in FilesOver(FilterPool, MaxFilters),
      source \in {"", "work.txt", "missing.txt"},
      targets \in {<<>>, <<"T">>, <<"Nope">>},
      all_configured \in BOOLEAN }

\* the files that exist besides 02.1_today.txt and task_sources.json
ExistingFiles == {"work.txt"}

\* work.txt
WorkFile ==
  << <<"Proj">>, <<TAB, "[", "i", "]", SP, "A">>, <<TAB, "[", "b", "]", SP, "B">> >>

CliInit ==
  /\ cli_entry \in {"status_view", "import"}
  /\ pc = (IF cli_entry = "status_view" THEN "sv_gather" ELSE "im_config")
  /\ cli_args \in (IF cli_entry = "status_view" THEN StatusViewArgs ELSE ImportArgs)
  /\ cli_config \in ConfigFiles
  /\ cli_loaded = load_config([exists |-> FALSE])
  /\ cli_selected = <<>>
  /\ cli_tasks = <<>>
  /\ cli_targets = <<>>
  /\ cli_specs = <<>>
  /\ cli_today = << <<"Notes">>, <<TAB, "memo">> >>
  /\ cli_parsed = FALSE
  /\ cli_written = {}
  /\ cli_exit = -1

CliStart ==
  /\ CliInit /\ ParseIdle /\ ImportIdle /\ InsertIdle /\ ChainIdle /\ BlockIdle /\ SyncIdle
  /\ LateIdle

\* what no step of main() changes
CliFrame ==
  UNCHANGED <<cli_entry, cli_args, cli_config, parseVars, importVars, insertVars, chainVars,
              blockVars, syncVars, lateVars>>

\* the process ends with an exit code
Exit(code) == pc' = "exited" /\ cli_exit' = code

\* task_status_view.main: gather_sources(root), which loads the config
SvGatherSources ==
  /\ pc = "sv_gather"
  /\ cli_loaded' = load_config(cli_config)
  /\ IF cli_loaded'.ok THEN pc' = "sv_list" /\ UNCHANGED cli_exit ELSE Exit(2)
  /\ UNCHANGED <<cli_selected, cli_tasks, cli_targets, cli_specs, cli_today, cli_parsed,
                 cli_written>>
  /\ CliFrame

\* task_status_view.main: if args.list_sources
SvListSources ==
  /\ pc = "sv_list"
  /\ IF cli_args.list_sources THEN Exit(0) ELSE pc' = "sv_filters" /\ UNCHANGED cli_exit
  /\ UNCHANGED <<cli_loaded, cli_selected, cli_tasks, cli_targets, cli_specs, cli_today,
                 cli_parsed, cli_written>>
  /\ CliFrame

\* task_status_view.main: selected_statuses = normalize_status_filters(args.status)
SvNormalizeFilters ==
  /\ pc = "sv_filters"
  /\ \E r \in {normalize_status_filters(cli_args.status)} :
       /\ cli_selected' = r.selected
       /\ IF r.exit = 0 THEN pc' = "sv_parse" /\ UNCHANGED cli_exit ELSE Exit(r.exit)
  /\ UNCHANGED <<cli_loaded, cli_tasks, cli_targets, cli_specs, cli_today, cli_parsed,
                 cli_written>>
  /\ CliFrame

\* task_status_view.main: the loop that parses the sources
SvParseSources ==
  /\ pc = "sv_parse"
  /\ cli_tasks' = parse_file(cli_today)
  /\ cli_parsed' = TRUE
  /\ pc' = "sv_targets"
  /\ UNCHANGED <<cli_loaded, cli_selected, cli_targets, cli_specs, cli_today, cli_written,
                 cli_exit>>
  /\ CliFrame

\* task_status_view.main: output_targets = build_output_targets(root, config)
SvBuildTargets ==
  /\ pc = "sv_targets"
  /\ \E r \in {build_output_targets(cli_loaded)} :
       /\ cli_targets' = r.targets
       /\ IF r.ok THEN pc' = "sv_write" /\ UNCHANGED cli_exit ELSE Exit(2)
  /\ UNCHANGED <<cli_loaded, cli_selected, cli_tasks, cli_specs, cli_today, cli_parsed,
                 cli_written>>
  /\ CliFrame

\* task_status_view.main: write_status_files when --write-files, output, return 0
SvWriteFiles ==
  /\ pc = "sv_write"
  /\ cli_written' = IF cli_args.write_files
                    THEN { cli_targets[k].path : k \in 1..Len(cli_targets) }
                    ELSE {}
  /\ Exit(0)
  /\ UNCHANGED <<cli_loaded, cli_selected, cli_tasks, cli_targets, cli_specs, cli_today,
                 cli_parsed>>
  /\ CliFrame

\* import_external_tasks.main: load_config and build_config_targets; the
\* ValueError either raises is not caught, so the interpreter exits with 1
ImLoadConfig ==
  /\ pc = "im_config"
  /\ cli_loaded' = load_config(cli_config)
  /\ IF cli_loaded'.ok /\ build_config_targets(cli_loaded').ok
     THEN pc' = "im_specs" /\ UNCHANGED cli_exit
     ELSE Exit(1)
  /\ UNCHANGED <<cli_selected, cli_tasks, cli_targets, cli_specs, cli_today, cli_parsed,
                 cli_written>>
  /\ CliFrame

\* the spec of a configured target, <<>> when there is none of that name
TargetSpec(target_specs, name) ==
  LET at == { k \in 1..Len(target_specs) : target_specs[k].name = name }
  IN  IF at = {} THEN <<>> ELSE << target_specs[CHOOSE k \in at : TRUE] >>

\* import_external_tasks.main: the specs of --all-configured, --target and the
\* source argument, in that order
ImSelectSpecs ==
  /\ pc = "im_specs"
  /\ LET target_specs == build_config_targets(cli_loaded).targets
         configured == IF cli_args.all_configured THEN target_specs ELSE <<>>
         unknown == \E k \in 1..Len(cli_args.targets) :
                      TargetSpec(target_specs, cli_args.targets[k]) = <<>>
         named == [k \in 1..Len(cli_args.targets) |->
                     TargetSpec(target_specs, cli_args.targets[k])[1]]
         chosen == FirstOccurrences(configured \o named)
         found == \/ TargetSpec(target_specs, cli_args.source) # <<>>
                  \/ cli_args.source \in ExistingFiles
         statuses == normalize_status_input(IF cli_args.status = <<>> THEN JAbsent
                                            ELSE JList(cli_args.status))
         manual == [name |-> "manual",
                    spec |-> ImportSpec(DEFAULT_SECTION, statuses.selected, FALSE, FALSE, NoMap)]
     IN  IF unknown THEN Exit(2) /\ UNCHANGED cli_specs
         ELSE IF cli_args.source # "" /\ ~found THEN Exit(1) /\ UNCHANGED cli_specs
         ELSE IF cli_args.source # "" /\ statuses.exit # 0
         THEN Exit(statuses.exit) /\ UNCHANGED cli_specs
         ELSE IF cli_args.source # ""
         THEN cli_specs' = Append(chosen, manual) /\ pc' = "im_run" /\ UNCHANGED cli_exit
         ELSE IF chosen = <<>> THEN Exit(1) /\ UNCHANGED cli_specs
         ELSE cli_specs' = chosen /\ pc' = "im_run" /\ UNCHANGED cli_exit
  /\ UNCHANGED <<cli_loaded, cli_selected, cli_tasks, cli_targets, cli_today, cli_parsed,
                 cli_written>>
  /\ CliFrame

\* the loop of main() over specs from spec k on: TODAY_FILE afterwards and
\* total_inserted
RECURSIVE RunSpecs(_, _, _)
RunSpecs(specs, k, st) ==
  IF k > Len(specs) THEN st
  ELSE LET Rest(r) == RunSpecs(specs, k + 1,
                               [today |-> r.today, total_inserted |-> st.total_inserted + r.ret])
       IN  Bind(run_single_import(specs[k].spec, WorkFile, st.today), Rest)

\* import_external_tasks.main: run_single_import for every spec, return 0
ImRunImports ==
  /\ pc = "im_run"
  /\ \E r \in {RunSpecs(cli_specs, 1, [today |-> cli_today, total_inserted |-> 0])} :
       /\ cli_today' = r.today
       /\ cli_written' = IF r.total_inserted > 0 THEN {"02.1_today.txt"} ELSE {}
  /\ cli_parsed' = TRUE
  /\ Exit(0)
  /\ UNCHANGED <<cli_loaded, cli_selected, cli_tasks, cli_targets, cli_specs>>
  /\ CliFrame

CliNext ==
  \/ SvGatherSources
  \/ SvListSources
  \/ SvNormalizeFilters
  \/ SvParseSources
  \/ SvBuildTargets
  \/ SvWriteFiles
  \/ ImLoadConfig
  \/ ImSelectSpecs
  \/ ImRunImports

\* one run of main() of task_status_view or of import_external_tasks
SpecCli == CliStart /\ [][CliNext]_vars

\* ------------------------------------------------ the scripts' inputs

\* a file of the directory: absent, or holding lines
NoFile == [exists |-> FALSE, lines |-> <<>>]

FileOf(ls) == [exists |-> TRUE, lines |-> ls]

\* the lines 02.1_today.txt is made of when a script is run from the shell
ShellPool ==
  { <<"Work">>,
    <<"[", "1", "]", SP, "Top">>,
    <<TAB, "[", "1", "]", SP, "Ship">>,
    <<TAB, "[", "1", "]", SP>>,
    <<TAB, TAB, "[", "1", "]", SP, "sub">>,
    <<TAB, TAB, "child">>,
    <<TAB, "[", "x", "]", SP, "Done">> }

\* the command lines and the files next to 02.1_today.txt
EntrySetups ==
  { [program |-> "filter_priority", quiet |-> FALSE, in_progress |-> NoFile, source |-> NoFile],
    [program |-> "focus_today", quiet |-> FALSE, in_progress |-> NoFile, source |-> NoFile] }
  \cup { [program |-> script, quiet |-> FALSE, in_progress |-> f, source |-> NoFile] :
           script \in {"sync_completed", "scripts/sync_completed"},
           f \in {NoFile, FileOf(<< <<"[", "x", "]", SP, "Ship", SP, "release">> >>)} }
  \cup { [program |-> "import_external_tasks", quiet |-> quiet, in_progress |-> NoFile,
          source |-> f] :
           quiet \in BOOLEAN, f \in {NoFile, FileOf(WorkFile)} }

EntryInit ==
  /\ pc = "entry"
  /\ \E setup \in EntrySetups,
        today \in {NoFile} \cup { FileOf(ls) : ls \in FilesOver(ShellPool, MaxLines) } :
       /\ ep_program = setup.program
       /\ ep_quiet = setup.quiet
       /\ ep_fs = [today |-> today, in_progress |-> setup.in_progress,
                   completed |-> NoFile, source |-> setup.source]
  /\ ep_items = <<>>
  /\ ep_reported = FALSE
  /\ ep_written = {}
  /\ ep_exit = -1

EntryStart ==
  /\ EntryInit /\ ParseIdle /\ ImportIdle /\ InsertIdle /\ ChainIdle /\ BlockIdle /\ SyncIdle
  /\ CliIdle /\ DryIdle /\ RaceIdle /\ StepIdle

\* what no script changes
EntryFrame ==
  UNCHANGED <<ep_program, ep_quiet, parseVars, importVars, insertVars, chainVars, blockVars,
              syncVars, cliVars, dry_preview, raceVars, stepVars>>

\* the process ends with an exit code
EntryExit(code) == pc' = "exited" /\ ep_exit' = code

\* filter_priority.main: parse_file exits with 1 when TODAY_FILE is missing;
\* otherwise the priorities are printed
FilterPriorityMain ==
  /\ pc = "entry" /\ ep_program = "filter_priority"
  /\ IF ~ep_fs.today.exists THEN ep_reported' = TRUE /\ EntryExit(1)
     ELSE UNCHANGED ep_reported /\ EntryExit(0)
  /\ UNCHANGED <<ep_fs, ep_items, ep_written>>
  /\ EntryFrame

\* focus_today.main: parse_today_priority1 exits with 1 when TODAY_FILE is
\* missing; otherwise the items are printed
FocusTodayMain ==
  /\ pc = "entry" /\ ep_program = "focus_today"
  /\ IF ~ep_fs.today.exists
     THEN ep_reported' = TRUE /\ EntryExit(1) /\ UNCHANGED ep_items
     ELSE /\ ep_items' = parse_today_priority1(ep_fs.today.lines)
          /\ UNCHANGED ep_reported
          /\ EntryExit(0)
  /\ UNCHANGED <<ep_fs, ep_written>>
  /\ EntryFrame

\* the files sync_completed() wrote, given what it returned
SyncWritten(r) ==
  (IF r.tasks_added # <<>> THEN {"completed"} ELSE {})
  \cup (IF \E k \in 1..Len(r.found) : r.found[k].file = TodayStem THEN {"today"} ELSE {})
  \cup (IF \E k \in 1..Len(r.found) : r.found[k].file = InProgressStem
        THEN {"in_progress"} ELSE {})

\* sync_completed.main of either script: the FileNotFoundError of
\* gather_source_tasks is printed and 1 returned
SyncCompletedMain ==
  /\ pc = "entry" /\ ep_program \in {"sync_completed", "scripts/sync_completed"}
  /\ IF ~ep_fs.today.exists
     THEN ep_reported' = TRUE /\ EntryExit(1) /\ UNCHANGED <<ep_fs, ep_written>>
     ELSE \E r \in {sync_completed(IF ep_program = "sync_completed" THEN "root" ELSE "scripts",
                                    ep_fs.today.lines, ep_fs.in_progress.lines,
                                    ep_fs.completed.lines)} :
            /\ ep_written' = SyncWritten(r)
            /\ ep_fs' = [ep_fs EXCEPT
                          !.today = FileOf(r.today),
                          !.in_progress = IF "in_progress" \in SyncWritten(r)
                                          THEN FileOf(r.in_progress) ELSE @,
                          !.completed = IF "completed" \in SyncWritten(r)
                                        THEN FileOf(r.completed) ELSE @]
            /\ UNCHANGED ep_reported
            /\ EntryExit(0)
  /\ UNCHANGED ep_items
  /\ EntryFrame

\* import_external_tasks.main with one configured target: run_single_import
\* returns 0 when the source is missing, and prints that unless --quiet; the
\* FileNotFoundError of TODAY_FILE.read_text() is not caught, so the
\* interpreter prints it and exits with 1
ImportMain ==
  /\ pc = "entry" /\ ep_program = "import_external_tasks"
  /\ IF ~ep_fs.source.exists
     THEN ep_reported' = ~ep_quiet /\ EntryExit(0) /\ UNCHANGED <<ep_fs, ep_written>>
     ELSE IF gather_tasks(ep_fs.source.lines, manual_spec.statuses) = <<>>
     THEN EntryExit(0) /\ UNCHANGED <<ep_fs, ep_written, ep_reported>>
     ELSE IF ~ep_fs.today.exists
     THEN ep_reported' = TRUE /\ EntryExit(1) /\ UNCHANGED <<ep_fs, ep_written>>
     ELSE \E r \in {run_single_import(manual_spec, ep_fs.source.lines, ep_fs.today.lines)} :
            /\ ep_written' = IF r.unique # <<>> THEN {"today"} ELSE {}
            /\ ep_fs' = [ep_fs EXCEPT !.today = FileOf(r.today)]
            /\ UNCHANGED ep_reported
            /\ EntryExit(0)
  /\ UNCHANGED ep_items
  /\ EntryFrame

EntryNext ==
  \/ FilterPriorityMain
  \/ FocusTodayMain
  \/ SyncCompletedMain
  \/ ImportMain

\* one of the scripts run once from the shell
SpecEntry == EntryStart /\ [][EntryNext]_vars

\* --------------------------------------- two invocations at once

\* the lines 02.1_today.txt is made of when an import and a sync run at once
RacePool ==
  { <<"Work">>,
    DEFAULT_SECTION,
    <<TAB, "[", "x", "]", SP, "Ship">>,
    <<TAB, "[", "i", "]", SP, "A">> }

\* the rest of run_single_import after its two reads of TODAY_FILE, the text read
\* by TODAY_FILE.read_text() and the lines parse_file(TODAY_FILE) read: whether
\* TODAY_FILE is written, the lines written and the value returned
ImportFromReads(sp, src, today_text, today_parsed) ==
  LET nothing == [wrote |-> FALSE, today |-> <<>>, ret |-> 0]
      Write(today_lines) == WriteLines(today_lines)
      Group(unique_tasks) ==
        IF unique_tasks = <<>> THEN nothing
        ELSE LET Place(section_order) ==
                   InsertSections(sp, unique_tasks, section_order, 1, today_text)
             IN  [wrote |-> TRUE,
                  today |-> Bind(Bind(SectionOrder(sp, unique_tasks), Place), Write),
                  ret |-> Len(unique_tasks)]
      Dedup(found) ==
        IF found = <<>> THEN nothing
        ELSE LET Unique(existing_keys) ==
                   UniqueFrom(found, 1, sp.allow_duplicates, existing_keys)
             IN  Bind(Bind(ExistingKeys(today_parsed, sp.statuses), Unique), Group)
  IN  Bind(gather_tasks(src, sp.statuses), Dedup)

\* SourceRewrite taking the lines from the file as it is on disk
SourceRewriteRereads(lines_read, on_disk) ==
  RemoveFrom(on_disk, TodayStem, extract_tasks_from_lines("root", on_disk, TodayStem))

\* remove_tasks_from_sources: the lines written to TODAY_FILE, built from the
\* lines gather_source_tasks read, whatever the file holds by now
SourceRewrite(lines_read, on_disk) ==
  RemoveFrom(lines_read, TodayStem, extract_tasks_from_lines("root", lines_read, TodayStem))

RaceInit ==
  /\ pc = "race"
  /\ \E today \in FilesOver(RacePool, MaxLines) :
       rc_files = [today |-> today, completed |-> <<>>]
  /\ rc_import = [at |-> "start", today_text |-> <<>>, today_parsed |-> <<>>, ret |-> 0]
  /\ rc_sync = [at |-> "start", lines |-> <<>>]
  /\ rc_last = ""

RaceStart ==
  /\ RaceInit /\ ParseIdle /\ ImportIdle /\ InsertIdle /\ ChainIdle /\ BlockIdle /\ SyncIdle
  /\ CliIdle /\ EntryIdle /\ DryIdle /\ StepIdle

\* what no step of the two invocations changes
RaceFrame ==
  UNCHANGED <<pc, parseVars, importVars, insertVars, chainVars, blockVars, syncVars, cliVars,
              entryVars, dry_preview, stepVars>>

\* run_single_import: gather_tasks, then today_text = TODAY_FILE.read_text()
ImReadToday ==
  /\ rc_import.at = "start"
  /\ rc_import' = IF gather_tasks(WorkFile, manual_spec.statuses) = <<>>
                  THEN [rc_import EXCEPT !.at = "done"]
                  ELSE [rc_import EXCEPT !.at = "text", !.today_text = rc_files.today]
  /\ UNCHANGED <<rc_files, rc_sync, rc_last>>
  /\ RaceFrame

\* run_single_import: today_entries = parse_file(TODAY_FILE), a second read
ImParseToday ==
  /\ rc_import.at = "text"
  /\ rc_import' = [rc_import EXCEPT !.at = "parsed", !.today_parsed = rc_files.today]
  /\ UNCHANGED <<rc_files, rc_sync, rc_last>>
  /\ RaceFrame

\* run_single_import: the grouping, the inserts and TODAY_FILE.write_text
ImWriteToday ==
  /\ rc_import.at = "parsed"
  /\ \E r \in {ImportFromReads(manual_spec, WorkFile, rc_import.today_text,
                                rc_import.today_parsed)} :
       /\ rc_import' = [rc_import EXCEPT !.at = "done", !.ret = r.ret]
       /\ rc_files' = IF r.wrote THEN [rc_files EXCEPT !.today = r.today] ELSE rc_files
       /\ rc_last' = IF r.wrote THEN "import" ELSE rc_last
  /\ UNCHANGED rc_sync
  /\ RaceFrame

\* sync_completed: gather_source_tasks reads TODAY_FILE
ScGather ==
  /\ rc_sync.at = "start"
  /\ rc_sync' = IF extract_tasks_from_lines("root", rc_files.today, TodayStem) = <<>>
                THEN [at |-> "done", lines |-> rc_files.today]
                ELSE [at |-> "gathered", lines |-> rc_files.today]
  /\ UNCHANGED <<rc_files, rc_import, rc_last>>
  /\ RaceFrame

\* sync_completed: load_completed, the loop over tasks and COMPLETED_FILE.write_text
ScWriteLog ==
  /\ rc_sync.at = "gathered"
  /\ rc_files' = [rc_files EXCEPT
                    !.completed = sync_completed("root", rc_sync.lines, <<>>, @).completed]
  /\ rc_sync' = [rc_sync EXCEPT !.at = "logged"]
  /\ UNCHANGED <<rc_import, rc_last>>
  /\ RaceFrame

\* sync_completed: remove_tasks_from_sources writes TODAY_FILE
ScRewriteToday ==
  /\ rc_sync.at = "logged"
  /\ rc_files' = [rc_files EXCEPT !.today = SourceRewrite(rc_sync.lines, @)]
  /\ rc_sync' = [rc_sync EXCEPT !.at = "done"]
  /\ rc_last' = "sync"
  /\ UNCHANGED rc_import
  /\ RaceFrame

RaceNext ==
  \/ ImReadToday
  \/ ImParseToday
  \/ ImWriteToday
  \/ ScGather
  \/ ScWriteLog
  \/ ScRewriteToday

\* an import of work.txt and a completion sync run at once on one today file
SpecRace == RaceStart /\ [][RaceNext]_vars

\* ------------------------------------------- sync_completed write by write

\* SyncLogWrite with the write of COMPLETED_FILE left out
SyncLogWriteSkipped(script, today, in_progress, completed) == completed

\* COMPLETED_FILE after load_completed, the loop over tasks and the write_text
\* of sync_completed, for the source lines gather_source_tasks read
SyncLogWrite(script, today, in_progress, completed) ==
  sync_completed(script, today, in_progress, completed).completed

\* the lines TODAY_FILE is made of when the sync is followed write by write
StepPool ==
  { <<"Work">>,
    <<TAB, "[", "x", "]", SP, "Ship", SP, "release">>,
    <<TAB, TAB, "-", SP, "[", "X", "]", SP, SP, "Fix", TAB, "bug">> }

\* COMPLETED_FILE before the first run: absent, or with the task logged by
\* sync_completed.py, or by scripts/sync_completed.py
StepCompletedFiles ==
  { <<>>,
    << <<"Work">>, OldEntry(<<"Ship", SP, "release">>) >>,
    << <<"Work">>, OldEntry(<<"[", "02.1_today", "]", SP, "Ship", SP, "release">>) >> }

StepInit ==
  /\ pc = "steps"
  /\ sw_script \in {"root", "scripts"}
  /\ \E today \in FilesOver(StepPool, MaxSyncLines), in_progress \in InProgressFiles,
        completed \in StepCompletedFiles :
       sw_files = [today |-> today, in_progress |-> in_progress, completed |-> completed]
  /\ sw_start = sw_files
  /\ sw_run = [at |-> "start", today |-> <<>>, in_progress |-> <<>>, found |-> <<>>]
  /\ sw_runs = 1

StepStart ==
  /\ StepInit /\ ParseIdle /\ ImportIdle /\ InsertIdle /\ ChainIdle /\ BlockIdle /\ SyncIdle
  /\ CliIdle /\ EntryIdle /\ DryIdle /\ RaceIdle

\* what no step of the sync changes
StepFrame ==
  UNCHANGED <<pc, sw_script, sw_start, parseVars, importVars, insertVars, chainVars, blockVars,
              syncVars, cliVars, entryVars, dry_preview, raceVars>>

\* sources, tasks = gather_source_tasks(); return when there is no task
SwGather ==
  /\ pc = "steps" /\ sw_run.at = "start"
  /\ \E found \in {gather_source_tasks(sw_script, sw_files.today, sw_files.in_progress)} :
       sw_run' = [at |-> IF found = <<>> THEN "done" ELSE "gathered",
                  today |-> sw_files.today, in_progress |-> sw_files.in_progress,
                  found |-> found]
  /\ UNCHANGED <<sw_files, sw_runs>>
  /\ StepFrame

\* load_completed(), the loop over tasks, COMPLETED_FILE.write_text
SwWriteLog ==
  /\ pc = "steps" /\ sw_run.at = "gathered"
  /\ sw_files' = [sw_files EXCEPT
                    !.completed = SyncLogWrite(sw_script, sw_run.today, sw_run.in_progress, @)]
  /\ sw_run' = [sw_run EXCEPT !.at = "logged"]
  /\ UNCHANGED sw_runs
  /\ StepFrame

\* remove_tasks_from_sources: TODAY_FILE, the first file of indexes_by_file
SwRewriteToday ==
  /\ pc = "steps" /\ sw_run.at = "logged"
  /\ sw_files' = [sw_files EXCEPT !.today = RemoveFrom(sw_run.today, TodayStem, sw_run.found)]
  /\ sw_run' = [sw_run EXCEPT !.at = "today_written"]
  /\ UNCHANGED sw_runs
  /\ StepFrame

\* remove_tasks_from_sources: IN_PROGRESS_FILE, then sync_completed returns
SwRewriteInProgress ==
  /\ pc = "steps" /\ sw_run.at = "today_written"
  /\ sw_files' = [sw_files EXCEPT
                    !.in_progress = RemoveFrom(sw_run.in_progress, InProgressStem, sw_run.found)]
  /\ sw_run' = [sw_run EXCEPT !.at = "done"]
  /\ UNCHANGED sw_runs
  /\ StepFrame

\* the process is killed between two writes and the script is started again
SwInterrupt ==
  /\ pc = "steps" /\ sw_run.at \in {"logged", "today_written"}
  /\ sw_runs < MaxRuns
  /\ sw_run' = [at |-> "start", today |-> <<>>, in_progress |-> <<>>, found |-> <<>>]
  /\ sw_runs' = sw_runs + 1
  /\ UNCHANGED sw_files
  /\ StepFrame

StepNext ==
  \/ SwGather
  \/ SwWriteLog
  \/ SwRewriteToday
  \/ SwRewriteInProgress
  \/ SwInterrupt

\* sync_completed followed write by write, killed and started again at most
\* MaxRuns - 1 times
SpecSteps == StepStart /\ [][StepNext]_vars

\* ---------------------------------------------------------------- claims

IsBlank(line) == Strip(line) = <<>>

\* a line that starts with a bracketed code outside the status alphabet
UnknownTag(line) ==
  LET r == LStrip(line)
  IN  /\ Len(r) >= 3
      /\ r[1] = "["
      /\ r[3] = "]"
      /\ Lower(r[2]) \notin {"b", "d", "w", "i", "x", "t"}

\* this step of task_status_view.parse_file appends a TaskEntry
StatusEmits == pc = "status" /\ Len(tasks') = Len(tasks) + 1

\* the priority whose bucket this step of filter_priority.parse_file extends
FpEmitted == { p \in 1..3 : Len(priorities'[p]) = Len(priorities[p]) + 1 }

\* C1: a block is the tag line at indentation d and the maximal run of following
\* lines that are blank or indented deeper than d; collection stops, without
\* consuming, at the first non-blank line indented <= d (task_status_view keeps
\* the lines right-stripped, filter_priority keeps them as they are).
C1_BlockBoundary ==
  [][ /\ StatusEmits =>
           LET d == leading_indent(lines[idx])
           IN  /\ idx' > idx
               /\ \A k \in (idx + 1)..(idx' - 1) :
                    IsBlank(lines[k]) \/ leading_indent(lines[k]) > d
               /\ idx' <= Len(lines) =>
                    ~IsBlank(lines[idx']) /\ leading_indent(lines[idx']) <= d
               /\ tasks'[Len(tasks')].lines =
                    [k \in 1..(idx' - idx) |-> RStrip(lines[idx + k - 1])]
      /\ (pc = "priority" /\ FpEmitted # {}) =>
           LET d == leading_indent(lines[fp_i])
               p == CHOOSE q \in FpEmitted : TRUE
           IN  /\ fp_i' > fp_i
               /\ \A k \in (fp_i + 1)..(fp_i' - 1) :
                    IsBlank(lines[k]) \/ leading_indent(lines[k]) > d
               /\ fp_i' <= Len(lines) =>
                    ~IsBlank(lines[fp_i']) /\ leading_indent(lines[fp_i']) <= d
               /\ priorities'[p][Len(priorities'[p])].lines =
                    SubSeq(lines, fp_i, fp_i' - 1)
    ]_vars

\* C1 witness: a status block took the blank line after its tag line and stopped
\* at a line that is still to be read
C1_Witness ==
  /\ pc = "status"
  /\ Len(tasks) = 1
  /\ Len(tasks[1].lines) = 2
  /\ tasks[1].lines[2] = <<>>
  /\ idx = 3
  /\ idx <= Len(lines)

\* C5: the heading chain of every TaskEntry has strictly increasing levels,
\* outermost first
C5_HeadingChainIncreasing ==
  \A t \in 1..Len(tasks) :
    LET h == tasks[t].headings
    IN  \A a, b \in 1..Len(h) : a < b => heading_level(h[a]) < heading_level(h[b])

C8_UnknownTagAsClaimed ==
  [][ /\ (pc = "status" /\ idx <= Len(lines) /\ UnknownTag(lines[idx])) =>
           /\ idx' = idx + 1
           /\ section' = section
           /\ heading_stack' = heading_stack
           /\ tasks' = tasks
      /\ StatusEmits =>
           \A j \in (idx + 1)..Len(lines) :
             ( /\ UnknownTag(lines[j])
               /\ \A k \in (idx + 1)..j :
                    IsBlank(lines[k]) \/ leading_indent(lines[k]) > leading_indent(lines[idx]) )
             => /\ j < idx'
                /\ tasks'[Len(tasks')].lines[j - idx + 1] = RStrip(lines[j])
    ]_vars

\* C8 (amended): a line with an unknown bracketed code never starts a TaskEntry;
\* indented it is content (stepped over outside a block, taken by an open block
\* when deeper-indented); unindented it is a section header like any other
\* unindented untagged line, unless it is a legend line, which is stepped over
C8_UnknownTag ==
  [][ /\ (pc = "status" /\ idx <= Len(lines) /\ UnknownTag(lines[idx])) =>
           /\ idx' = idx + 1
           /\ heading_stack' = heading_stack
           /\ tasks' = tasks
           /\ section' = IF LStrip(lines[idx]) = lines[idx]
                            /\ ~LEGEND_PATTERN(Strip(lines[idx]))
                         THEN Strip(lines[idx]) ELSE section
      /\ StatusEmits =>
           \A j \in (idx + 1)..Len(lines) :
             ( /\ UnknownTag(lines[j])
               /\ \A k \in (idx + 1)..j :
                    IsBlank(lines[k]) \/ leading_indent(lines[k]) > leading_indent(lines[idx]) )
             => /\ j < idx'
                /\ tasks'[Len(tasks')].lines[j - idx + 1] = RStrip(lines[j])
    ]_vars

\* C8 witness: an unindented unknown-tag line became the section of a task whose
\* block holds a deeper-indented unknown-tag line
C8_Witness ==
  \E t \in 1..Len(tasks) :
    /\ UnknownTag(tasks[t].section)
    /\ \E m \in 2..Len(tasks[t].lines) : UnknownTag(tasks[t].lines[m])

\* C9: every line that matches the tag pattern (and is no legend line) and that
\* the outer loop reaches starts one block, filed under its own tag with the
\* current section, in both parsers
C9_EveryTagLineExtracted ==
  [][ /\ ( /\ pc = "status" /\ idx <= Len(lines)
           /\ STATUS_PATTERN(lines[idx])
           /\ ~LEGEND_PATTERN(Strip(lines[idx])) ) =>
           /\ StatusEmits
           /\ tasks'[Len(tasks')].status = STATUS_TAGS[Lower(StatusCode(lines[idx]))]
           /\ tasks'[Len(tasks')].lines[1] = RStrip(lines[idx])
      /\ ( /\ pc = "priority" /\ fp_i <= Len(lines)
           /\ PRIORITY_PATTERN(lines[fp_i])
           /\ ~LEGEND_PATTERN(Strip(lines[fp_i])) ) =>
           /\ FpEmitted = {PriorityOf(lines[fp_i])}
           /\ LET bucket == priorities'[PriorityOf(lines[fp_i])]
              IN  bucket[Len(bucket)].lines[1] = lines[fp_i]
    ]_vars

\* the signatures of a list of entries
Signatures(entries) == { canonicalize_lines(entries[k].lines) : k \in 1..Len(entries) }

\* no two entries of a list have the same signature
NoDuplicateSignatures(entries) ==
  \A a, b \in 1..Len(entries) :
    a # b => canonicalize_lines(entries[a].lines) # canonicalize_lines(entries[b].lines)

\* C2: with allow_duplicates false the second run of the same import on an
\* unchanged source inserts nothing and leaves the today file as the first run
\* left it
C2_ImportIdempotent ==
  (Len(inserted_log) >= 2 /\ ~import_spec.allow_duplicates) =>
    /\ inserted_log[2] = 0
    /\ today_log[3] = today_log[2]

\* C3: after an import into a today file that holds no task, parsing the today
\* file gives the signatures of the imported source entries
C3_ImportRoundTrip ==
  (Len(unique_log) >= 1 /\ parse_file(today_log[1]) = <<>> /\ unique_log[1] # <<>>) =>
    Signatures(parse_file(today_log[2])) = Signatures(unique_log[1])

\* C4: (a) gather_tasks returns no two entries with the same signature, whatever
\* allow_duplicates is; (b) with allow_duplicates false no entry the latest run
\* inserted has the signature of an entry the today file held before that run
\* with a status in the spec's statuses, and with allow_duplicates true every
\* gathered entry is inserted
C4_DeduplicationScope ==
  pc = "import" =>
    \E gathered \in {gather_tasks(source_file, import_spec.statuses)} :
      /\ NoDuplicateSignatures(gathered)
      /\ unique_log # <<>> =>
           \E before \in {parse_file(today_log[Len(unique_log)])} :
             LET inserted == unique_log[Len(unique_log)]
                 existing == { canonicalize_lines(before[k].lines) :
                                 k \in { j \in 1..Len(before) :
                                          InList(before[j].status, import_spec.statuses) } }
             IN  /\ NoDuplicateSignatures(inserted)
                 /\ ~import_spec.allow_duplicates =>
                      Signatures(inserted) \cap existing = {}
                 /\ import_spec.allow_duplicates => inserted = gathered

\* C4 witness: with allow_duplicates false a run inserted an entry, dropped a
\* gathered one that the today file already held, and the source held the same
\* block twice
C4_Witness ==
  /\ pc = "import"
  /\ Len(unique_log) >= 1
  /\ ~import_spec.allow_duplicates
  /\ unique_log[1] # <<>>
  /\ Len(unique_log[1]) < Len(gather_tasks(source_file, import_spec.statuses))
  /\ ~NoDuplicateSignatures(parse_file(source_file))

\* the labels of a chain from its first heading of level >= 2 on, <<>> if none
FromFirstDeep(chain) ==
  LET deep == { k \in 1..Len(chain) : HashRun(chain[k]) >= 2 }
  IN  IF deep = {} THEN <<>>
      ELSE SubSeq(chain, CHOOSE k \in deep : \A j \in deep : k <= j, Len(chain))

HasSection(ls, sec) ==
  \E k \in 1..Len(ls) : LStrip(ls[k]) = ls[k] /\ Strip(ls[k]) = sec

\* C10: with no top-level line naming the section, the result is the lines as
\* they were, one blank line if they are non-empty and end non-blank, the section
\* header, one blank line and the block
C10_SectionCreation ==
  (pc = "inserted" /\ ~HasSection(ins_lines, ins_section)) =>
    ins_result =
      ins_lines
      \o (IF ins_lines # <<>> /\ ~IsBlank(ins_lines[Len(ins_lines)])
          THEN << <<>> >> ELSE <<>>)
      \o <<ins_section, <<>> >>
      \o ins_block

\* C10 witness: a section was created after a file that ends with a non-blank line
C10_Witness ==
  /\ pc = "inserted"
  /\ ~HasSection(ins_lines, ins_section)
  /\ ins_lines # <<>>
  /\ ~IsBlank(ins_lines[Len(ins_lines)])
  /\ Len(ins_block) > 1
  /\ Len(ins_result) = Len(ins_lines) + 3 + Len(ins_block)

\* C11: with a top-level line naming the section, the block goes in unchanged
\* just before the next non-blank top-level line after the first such line (at
\* the end when there is none), after one added blank line when the line before
\* is non-blank, and before one added blank line when a line follows
C11_InsertExistingSection ==
  (pc = "inserted" /\ HasSection(ins_lines, ins_section)) =>
    LET heads == { k \in 1..Len(ins_lines) :
                     LStrip(ins_lines[k]) = ins_lines[k] /\ Strip(ins_lines[k]) = ins_section }
        first == CHOOSE k \in heads : \A j \in heads : k <= j
        tops == { j \in (first + 1)..Len(ins_lines) :
                    ~IsBlank(ins_lines[j]) /\ LStrip(ins_lines[j]) = ins_lines[j] }
        at == IF tops = {} THEN Len(ins_lines)
              ELSE (CHOOSE j \in tops : \A m \in tops : j <= m) - 1
        pre == SubSeq(ins_lines, 1, at)
        post == SubSeq(ins_lines, at + 1, Len(ins_lines))
    IN  ins_result =
          pre
          \o (IF ~IsBlank(pre[Len(pre)]) THEN << <<>> >> ELSE <<>>)
          \o ins_block
          \o (IF post # <<>> THEN << <<>> >> ELSE <<>>)
          \o post

\* C11 witness: a block of several lines went between the section's header line
\* and the next top-level line, with a blank line added on both sides
C11_Witness ==
  /\ pc = "inserted"
  /\ ins_section = <<"Work">>
  /\ Len(ins_lines) >= 2
  /\ ins_lines[1] = <<"Work">>
  /\ ins_lines[2] = <<"Other">>
  /\ Len(ins_block) > 1
  /\ Len(ins_result) = Len(ins_lines) + Len(ins_block) + 2
  /\ SubSeq(ins_result, 3, 2 + Len(ins_block)) = ins_block

\* the lines of entries k.. laid out as C12 states: each entry's lines, stripped
\* and behind the indent, up to its last non-blank line, and one blank line
\* after each entry
RECURSIVE LaidOut(_, _, _)
LaidOut(entries, k, indent) ==
  IF k > Len(entries) THEN <<>>
  ELSE PopBlank([m \in 1..Len(entries[k].lines) |->
                   IF IsBlank(entries[k].lines[m]) THEN <<>>
                   ELSE indent \o Strip(entries[k].lines[m])])
       \o << <<>> >>
       \o LaidOut(entries, k + 1, indent)

\* C12: the block is one heading line per chain level, level k behind k tabs,
\* then the entries' lines one tab deeper than the deepest heading, with exactly
\* one blank line between consecutive entries and one blank line at the end
C12_HeadingBlockLayout ==
  (pc = "built" /\ bh_entries # <<>>) =>
    bh_out = [k \in 1..Len(bh_chain) |-> Tabs(k) \o bh_chain[k]]
             \o LaidOut(bh_entries, 1, Tabs(Len(bh_chain) + 1))

\* the signatures load_completed holds for a section of a log file, {} when the
\* section is not in it
SectionSignatures(file, name) ==
  LET log == load_completed(file)
      at == SectionIndex(log.section_order, name)
  IN  IF at = 0 THEN {} ELSE log.section_tasks[at]

\* no section of a log file, sections taken by name as load_completed reads them,
\* holds two entries with the same signature
NoDuplicateInSection(file) ==
  LET log == load_completed(file)
  IN  \A k \in 1..Len(log.section_order) :
        Cardinality(log.section_tasks[k]) = Len(log.section_entries[k])

\* C13: starting from a completion log in which no section holds two entries with
\* the same signature, after every sequence of sync_completed runs no section of
\* the log holds two entries with equal signatures, and every entry a run adds
\* has a signature that was not in its section before that run.
C13_NoDuplicateInSection ==
  (sc_log # <<>> /\ NoDuplicateInSection(sc_log[1])) =>
    /\ NoDuplicateInSection(sc_completed)
    /\ \A r \in 1..Len(sc_added) : \A k \in 1..Len(sc_added[r]) :
         sc_added[r][k].text \notin SectionSignatures(sc_log[r], sc_added[r][k].section)

\* a run found a task whose signature its section already held, skipped it and
\* recorded another one
C13_Witness ==
  /\ sc_log # <<>> /\ NoDuplicateInSection(sc_log[1])
  /\ \E r \in 1..Len(sc_added) :
       /\ sc_added[r] # <<>>
       /\ \E k \in 1..Len(sc_found[r]) :
            RecordedText(sc_script, sc_found[r][k])
              \in SectionSignatures(sc_log[r], sc_found[r][k].section)

\* the source line a task found in run r was read from
SourceLine(r, task) ==
  IF task.file = TodayStem THEN sc_sources[r].today[task.line_index]
  ELSE sc_sources[r].in_progress[task.line_index]

\* task k of run r is a '[x] Ship release' line under section Work
ShipReleaseUnderWork(r, k) ==
  /\ sc_found[r][k].section = <<"Work">>
  /\ Strip(SourceLine(r, sc_found[r][k])) = <<"[", "x", "]", SP, "Ship", SP, "release">>

\* what C14 promises of run r for its task k: no entry is recorded for it; when it
\* is the only task found the run adds nothing and leaves the log as it was, and
\* so does the run after it
ReSyncAddsNothing(r, k) ==
  /\ \A a \in 1..Len(sc_added[r]) :
       ~ /\ sc_added[r][a].section = <<"Work">>
         /\ sc_added[r][a].text = RecordedText(sc_script, sc_found[r][k])
  /\ Len(sc_found[r]) = 1 =>
       /\ sc_added[r] = <<>>
       /\ sc_log[r + 1] = sc_log[r]
       /\ r + 1 <= Len(sc_added) => (sc_added[r + 1] = <<>> /\ sc_log[r + 2] = sc_log[r])

\* C14: if section Work of the completion log already holds the signature the
\* script computes for the task ('Ship release' in sync_completed.py,
\* '[<source stem>] Ship release' in scripts/sync_completed.py) and a source file
\* holds a '[x] Ship release' line under Work, sync_completed adds no entry for
\* it and does not rewrite the log, and a second sync in a row adds nothing either.
C14_ReSyncAddsNothing ==
  \A r \in 1..Len(sc_added) : \A k \in 1..Len(sc_found[r]) :
    ( /\ ShipReleaseUnderWork(r, k)
      /\ RecordedText(sc_script, sc_found[r][k]) \in SectionSignatures(sc_log[r], <<"Work">>) )
    => ReSyncAddsNothing(r, k)

\* C14 as stated: the log's section Work holds the signature 'Ship release',
\* whichever script runs
C14_ReSyncAsClaimed ==
  \A r \in 1..Len(sc_added) : \A k \in 1..Len(sc_found[r]) :
    ( /\ ShipReleaseUnderWork(r, k)
      /\ <<"Ship", SP, "release">> \in SectionSignatures(sc_log[r], <<"Work">>) )
    => ReSyncAddsNothing(r, k)

\* scripts/sync_completed.py ran twice on a source whose only checked task is a
\* '[x] Ship release' line under Work that the log already holds
C14_Witness ==
  /\ sc_script = "scripts"
  /\ Len(sc_added) = 2
  /\ Len(sc_found[1]) = 1
  /\ ShipReleaseUnderWork(1, 1)
  /\ RecordedText(sc_script, sc_found[1][1]) \in SectionSignatures(sc_log[1], <<"Work">>)

\* a line of the log that is a section header: not blank and not indented
IsHeader(line) == Strip(line) # <<>> /\ ~IsWs(line[1])

\* the section headers of a log file, in file order
Headers(file) ==
  LET at == { k \in 1..Len(file) : IsHeader(file[k]) }
  IN  [k \in 1..Cardinality(at) |-> Strip(SelectSeqIdx(file, at, 1)[k])]

\* the header a line of a log file stands under, <<>> when there is none
HeaderAbove(file, i) ==
  LET at == { k \in 1..i : IsHeader(file[k]) }
  IN  IF at = {} THEN <<>> ELSE Strip(file[CHOOSE k \in at : \A j \in at : j <= k])

\* a log file laid out as sections: it starts with a header, every other header
\* has exactly one blank line before it, blank lines stand nowhere else, and
\* every other line starts with a tab
SectionLayout(file) ==
  /\ file # <<>>
  /\ IsHeader(file[1])
  /\ \A i \in 1..Len(file) :
       IF Strip(file[i]) = <<>>
       THEN file[i] = <<>> /\ 1 < i /\ i < Len(file)
            /\ Strip(file[i - 1]) # <<>> /\ IsHeader(file[i + 1])
       ELSE IF IsHeader(file[i])
       THEN i = 1 \/ file[i - 1] = <<>>
       ELSE file[i][1] = TAB

\* C15: whenever a run adds at least one entry the rewritten log is laid out as
\* sections: header, tab-indented entry lines, exactly one blank line between
\* sections and none after the last; the sections are those of the old log in
\* file order, then the new ones in first-seen order, and every added entry is
\* a line tab '[<ISO date>] [x] <text>' of its section.
C15_LogRewriteFormat ==
  \A r \in 1..Len(sc_added) :
    sc_added[r] # <<>> =>
      /\ SectionLayout(sc_log[r + 1])
      /\ Headers(sc_log[r + 1])
           = FirstOccurrences(Headers(sc_log[r])
                              \o [k \in 1..Len(sc_found[r]) |-> sc_found[r][k].section])
      /\ \A a \in 1..Len(sc_added[r]) :
           \E i \in 1..Len(sc_log[r + 1]) :
             /\ sc_log[r + 1][i] = <<TAB, "[", today_str, "]", SP, "[", "x", "]", SP>>
                                     \o sc_added[r][a].text
             /\ HeaderAbove(sc_log[r + 1], i) = sc_added[r][a].section

\* a run added an entry under a section the log did not have, to a log of two
\* sections one of whose entries was indented with spaces
C15_Witness ==
  /\ Len(sc_added) >= 1
  /\ Len(Headers(sc_log[1])) = 2
  /\ \E i \in 1..Len(sc_log[1]) : sc_log[1][i] # <<>> /\ sc_log[1][i][1] = SP
  /\ \E a \in 1..Len(sc_added[1]) :
       \A h \in 1..Len(Headers(sc_log[1])) : Headers(sc_log[1])[h] # sc_added[1][a].section

\* the indented entry lines a log file holds under a header (<<>>: before the
\* first header), in file order, each without its surrounding whitespace
EntriesUnder(file, header) ==
  LET at == { i \in 1..Len(file) :
                /\ Strip(file[i]) # <<>>
                /\ IsWs(file[i][1])
                /\ HeaderAbove(file, i) = header }
  IN  [k \in 1..Cardinality(at) |-> Strip(SelectSeqIdx(file, at, 1)[k])]

\* a from element i on is found, in order, in b from element j on
RECURSIVE IsSubsequenceFrom(_, _, _, _)
IsSubsequenceFrom(a, b, i, j) ==
  IF i > Len(a) THEN TRUE
  ELSE IF j > Len(b) THEN FALSE
  ELSE IF a[i] = b[j] THEN IsSubsequenceFrom(a, b, i + 1, j + 1)
  ELSE IsSubsequenceFrom(a, b, i, j + 1)

\* the entry lines of the log before run r are all in the log after it, under
\* the same header and in the same order
KeepsEntries(r) ==
  \A i \in 1..Len(sc_log[r]) :
    (Strip(sc_log[r][i]) # <<>> /\ IsWs(sc_log[r][i][1])) =>
      LET header == HeaderAbove(sc_log[r], i)
      IN  IsSubsequenceFrom(EntriesUnder(sc_log[r], header),
                            EntriesUnder(sc_log[r + 1], header), 1, 1)

\* C16: the completion log is append-only: every indented entry line the log
\* held before a run is still in it after the run, under the same section and
\* in the same relative order.
C16_LogAppendOnly == \A r \in 1..Len(sc_added) : KeepsEntries(r)

\* a line that starts, after leading whitespace, with a bracketed one-character tag
StartsWithTag(line) ==
  LET rest == LStrip(line)
  IN  Len(rest) >= 3 /\ rest[1] = "[" /\ Len(rest[2]) = 1 /\ rest[3] = "]"

\* the lines of a file that do not start with a bracketed tag, in file order
UntaggedLines(file) ==
  SelectSeqIdx(file, { i \in 1..Len(file) : ~StartsWithTag(file[i]) }, 1)

\* C17: a line yields a task record only if it starts, after leading
\* whitespace, with a bracketed one-character tag; a line that starts with a
\* bare 'x' or holds '[x]' only after other text is never extracted by
\* sync_completed and never removed from a source file.
C17_BracketStrictExtraction ==
  \A r \in 1..Len(sc_found) :
    /\ \A k \in 1..Len(sc_found[r]) : StartsWithTag(SourceLine(r, sc_found[r][k]))
    /\ UntaggedLines(sc_sources[r + 1].today) = UntaggedLines(sc_sources[r].today)
    /\ UntaggedLines(sc_sources[r + 1].in_progress) = UntaggedLines(sc_sources[r].in_progress)

\* the block of the tag line i of a file: the line and the lines after it for as
\* long as they are blank or indented deeper than it
BlockOf(file, i) ==
  { j \in i..Len(file) :
      \A m \in (i + 1)..j :
        Strip(file[m]) = <<>> \/ leading_indent(file[m]) > leading_indent(file[i]) }

\* a source file without the blocks of the tasks a run found in it
WithoutBlocks(file, stem, found) ==
  SelectSeqIdx(file,
               (1..Len(file)) \ UNION { BlockOf(file, found[k].line_index) :
                                          k \in { j \in 1..Len(found) : found[j].file = stem } },
               1)

\* C18: when sync_completed moves a checked task out of a source file, the tag
\* line and all its deeper-indented continuation lines leave the file together:
\* after the run the file is what it was without the blocks of the tasks found.
C18_BlockMovedWhole ==
  \A r \in 1..Len(sc_found) :
    /\ sc_sources[r + 1].today = WithoutBlocks(sc_sources[r].today, TodayStem, sc_found[r])
    /\ sc_sources[r + 1].in_progress
         = WithoutBlocks(sc_sources[r].in_progress, InProgressStem, sc_found[r])

\* the statuses the tokens of the --status options resolve to, "" for a token
\* that does not resolve
ResolvedFilter(raw_filters) ==
  LET tokens == FilterTokens(raw_filters)
  IN  [k \in 1..Len(tokens) |-> resolve_status_token(tokens[k])]

\* a status filter was given and one of its tokens does not resolve
UnresolvedFilter ==
  /\ cli_entry # ""
  /\ \E k \in 1..Len(ResolvedFilter(cli_args.status)) : ResolvedFilter(cli_args.status)[k] = ""

\* C19: if a token of the status filter given to task_status_view or to
\* import_external_tasks does not resolve through the alias table, no task file
\* is ever parsed or written and the run ends with exit code 2; when all tokens
\* resolve, the selected statuses are the resolved ones without repeats, in
\* first-occurrence order.
C19_FilterFailFast ==
  /\ UnresolvedFilter =>
       /\ ~cli_parsed
       /\ cli_written = {}
       /\ pc = "exited" => cli_exit = 2
  /\ (cli_entry = "status_view" /\ pc \in {"sv_parse", "sv_targets", "sv_write"}
        /\ cli_args.status # <<>>) =>
       cli_selected = FirstOccurrences(ResolvedFilter(cli_args.status))

\* task_sources.json has a wrong shape: one of the four keys is not a list, an
\* entry of status_outputs is invalid, or the statuses of an import target do
\* not resolve
MalformedConfig ==
  /\ cli_entry # ""
  /\ \/ ~load_config(cli_config).ok
     \/ ~build_output_targets(load_config(cli_config)).ok
     \/ ~build_config_targets(load_config(cli_config)).ok

\* C20: when the JSON config has a wrong shape, every entry point that loads it
\* writes no file, neither a status output file nor the today file, and ends
\* with exit code 2.
C20_MalformedConfigExits2 ==
  MalformedConfig =>
    /\ cli_written = {}
    /\ pc = "exited" => cli_exit = 2

\* a required input of the script that ran is absent: the today file for
\* filter_priority, focus_today and sync_completed, the source file of the
\* import spec for import_external_tasks
RequiredInputMissing ==
  IF ep_program = "import_external_tasks" THEN ~ep_fs.source.exists
  ELSE ~ep_fs.today.exists

\* C21: a run whose required input file is absent reports it, ends with exit
\* code 1 and writes no file
C21_MissingInputExits1 ==
  (pc = "exited" /\ RequiredInputMissing)
    => (ep_reported /\ ep_exit = 1 /\ ep_written = {})

\* the entries of a preview, section by section and heading by heading
RECURSIVE PreviewEntries(_, _, _)
PreviewEntries(preview, k, h) ==
  IF k > Len(preview) THEN <<>>
  ELSE IF h > Len(preview[k].groups) THEN PreviewEntries(preview, k + 1, 1)
  ELSE preview[k].groups[h].entries \o PreviewEntries(preview, k, h + 1)

\* the lines ls occur in file one after the other, trailing whitespace aside
OccursIn(ls, file) ==
  \E at \in 0..(Len(file) - Len(ls)) :
    \A k \in 1..Len(ls) : RStrip(file[at + k]) = RStrip(ls[k])

\* the sections and heading groups of the preview are in the file a real run
\* writes: each section as a header line, each group as the block of its heading
InsertedAsPreviewed(preview, written) ==
  \A k \in 1..Len(preview) :
    /\ \E n \in 1..Len(written) : written[n] = preview[k].section
    /\ \A h \in 1..Len(preview[k].groups) :
         OccursIn(PopBlank(build_heading_block(preview[k].groups[h].heading,
                                               preview[k].groups[h].entries)), written)

\* C22: run_single_import with dry_run true returns 0 and leaves the today file
\* as it was, and the sections and heading groups it previews hold the entries
\* a real run inserts, under the same sections and headings
C22_DryRunChangesNothing ==
  pc = "dried" =>
    /\ inserted_log = <<0>>
    /\ today_file = today_log[1]
    /\ today_log[2] = today_log[1]
    /\ \E real \in {run_single_import(import_spec, source_file, today_log[1])} :
         /\ { PreviewEntries(dry_preview, 1, 1)[k] :
                k \in 1..Len(PreviewEntries(dry_preview, 1, 1)) }
              = { real.unique[k] : k \in 1..Len(real.unique) }
         /\ Len(PreviewEntries(dry_preview, 1, 1)) = real.ret
         /\ InsertedAsPreviewed(dry_preview, real.today)

\* a dry run whose preview holds two heading groups, where a real run changes
\* the today file
C22_Witness ==
  /\ pc = "dried"
  /\ Len(PreviewEntries(dry_preview, 1, 1)) >= 2
  /\ \E k \in 1..Len(dry_preview) : Len(dry_preview[k].groups) >= 2
  /\ today_log[1] # <<>>
  /\ run_single_import(import_spec, source_file, today_log[1]).today # today_log[1]

\* the line occurs in the file
HasLine(file, line) == \E k \in 1..Len(file) : file[k] = line

\* both invocations have ended
BothDone == pc = "race" /\ rc_import.at = "done" /\ rc_sync.at = "done"

\* C23: nothing excludes two invocations from each other; once both have ended
\* the today file holds what the last writer computed from its own earlier
\* reads, whatever the other invocation wrote in between
C23_LastWriterWins ==
  BothDone =>
    /\ rc_last = "import" =>
         rc_files.today = ImportFromReads(manual_spec, WorkFile, rc_import.today_text,
                                          rc_import.today_parsed).today
    /\ rc_last = "sync" =>
         rc_files.today = RemoveFrom(rc_sync.lines, TodayStem,
                            extract_tasks_from_lines("root", rc_sync.lines, TodayStem))

\* both invocations wrote the today file and the sync wrote last: the tasks the
\* import inserted are not in the file
C23_Witness ==
  /\ BothDone
  /\ rc_last = "sync"
  /\ rc_import.ret > 0
  /\ ~HasLine(rc_files.today, DEFAULT_SECTION)
  /\ \A k \in 1..Len(rc_files.today) : ~STATUS_PATTERN(rc_files.today[k])

\* both invocations wrote the today file and the import wrote last: a checked
\* line the sync removed and logged is in the file again
C23_CheckedLineBack ==
  /\ BothDone
  /\ rc_last = "import"
  /\ rc_files.completed # <<>>
  /\ HasLine(rc_files.today, <<TAB, "[", "x", "]", SP, "Ship">>)

\* line k is a nested child: it is indented deeper than a [1] task line before
\* it, with nothing but blank and deeper lines in between
FocusNested(ls, k) ==
  \E j \in 1..(k - 1) :
    /\ PRIORITY_1_PATTERN(ls[j])
    /\ leading_indent(ls[k]) > leading_indent(ls[j])
    /\ \A m \in (j + 1)..(k - 1) :
         Strip(ls[m]) = <<>> \/ leading_indent(ls[m]) > leading_indent(ls[j])

\* focus_today has printed the items of a today file that exists
FocusRan == pc = "exited" /\ ep_program = "focus_today" /\ ep_fs.today.exists

\* C24: focus_today returns no nested children: every item comes from a
\* [1]-tagged line that is not indented deeper than a [1] task line before it,
\* so there are no more items than such lines
C24_NoNestedItem ==
  FocusRan =>
    Len(ep_items) <= Cardinality({ k \in 1..Len(ep_fs.today.lines) :
                                     /\ PRIORITY_1_PATTERN(ep_fs.today.lines[k])
                                     /\ ~FocusNested(ep_fs.today.lines, k) })

\* line j of the parsed file sets the section: a plain section header, or an
\* unindented heading line
SetsSection(j) ==
  \/ StatusBranch(lines[j]) = "section"
  \/ StatusBranch(lines[j]) = "heading" /\ LStrip(lines[j]) = lines[j]

\* the line that set the section the line at idx is under, 1 when none did
SectionHeaderLine ==
  LET set == { j \in 1..(idx - 1) : SetsSection(j) }
  IN  IF set = {} THEN 1 ELSE CHOOSE j \in set : \A m \in set : m <= j

\* C25: the heading chain attached to a task entry holds only headings of lines
\* that come after the header of the task's section (the header itself included
\* when it is a heading line), none seen under an earlier section
C25_ChainInsideSection ==
  [][Len(tasks') = Len(tasks) + 1 =>
       \A h \in 1..Len(tasks'[Len(tasks')].headings) :
         \E j \in SectionHeaderLine..(idx - 1) :
           /\ StatusBranch(lines[j]) = "heading"
           /\ HeadingLabel(lines[j]) = tasks'[Len(tasks')].headings[h]]_vars

\* the checked tasks found in the source files as they were before the first run
FoundAtStart == gather_source_tasks(sw_script, sw_start.today, sw_start.in_progress)

\* the task's line is in its source file
InSource(task) ==
  IF task.file = TodayStem
  THEN HasLine(sw_files.today, sw_start.today[task.line_index])
  ELSE HasLine(sw_files.in_progress, sw_start.in_progress[task.line_index])

\* the task's signature is in its section of the completion log, as
\* load_completed reads it
InLog(log, task) ==
  \E at \in 1..Len(log.section_order) :
    /\ log.section_order[at] = task.section
    /\ RecordedText(sw_script, task) \in log.section_tasks[at]

\* the three files after one sync that is not interrupted
Uninterrupted ==
  LET r == sync_completed(sw_script, sw_start.today, sw_start.in_progress, sw_start.completed)
  IN  [today |-> r.today, in_progress |-> r.in_progress, completed |-> r.completed]

\* C26: at every point of a sync each checked task found at the start is either
\* a line of its source file or a signature in its section of the log, and a
\* sync that was interrupted between two writes and repeated ends with the log
\* and the sources an uninterrupted sync ends with
C26_NoTaskLost ==
  pc = "steps" =>
    /\ \E found \in {FoundAtStart}, log \in {load_completed(sw_files.completed)} :
         \A k \in 1..Len(found) : InSource(found[k]) \/ InLog(log, found[k])
    /\ sw_run.at = "done" => sw_files = Uninterrupted

\* a sync killed after the log write and a second one killed after TODAY_FILE was
\* rewritten would both end here: the repeated run is done, tasks of both source
\* files were logged and removed
C26_Witness ==
  /\ pc = "steps"
  /\ sw_run.at = "done"
  /\ sw_runs = 2
  /\ sw_files.completed # sw_start.completed
  /\ sw_files.today # sw_start.today
  /\ sw_files.in_progress # sw_start.in_progress

\* the lines insert_into_section may put in front of the block: a blank line, the
\* section header and a blank line, or both
AddedBefore(sec) == { <<>>, << <<>> >>, <<sec, <<>> >>, << <<>>, sec, <<>> >> }

\* the result is the lines as they were with, at one place, nothing but blank
\* lines, the section header and the block put in
InsertOnlyAdds(ls, sec, block, result) ==
  \E at \in 0..Len(ls) :
    \E before \in AddedBefore(sec), after \in { <<>>, << <<>> >> } :
      result = SubSeq(ls, 1, at) \o before \o block \o after \o SubSeq(ls, at + 1, Len(ls))

\* the non-blank lines of a file, in order
NonBlankLines(ls) == SelectSeqIdx(ls, { k \in 1..Len(ls) : Strip(ls[k]) # <<>> }, 1)

\* the non-blank lines of the old file are in the written file, in order; the
\* last of them may have lost its trailing whitespace when it ends the file
KeptButFileEnd(old, written) ==
  LET kept == NonBlankLines(old)
  IN  \/ IsSubsequenceFrom(kept, written, 1, 1)
      \/ /\ written[Len(written)] = RStrip(kept[Len(kept)])
         /\ IsSubsequenceFrom(SubSeq(kept, 1, Len(kept) - 1), written, 1, 1)

\* C27 (as claimed): the lines before insert_into_section are a subsequence of
\* the lines after it and the added lines are only blank lines, the section
\* header and the block; after the import has written the today file every
\* non-blank line of the old file is still there, in the same order
C27_OnlyAddsAsClaimed ==
  /\ pc \in {"inserted", "written"} =>
       InsertOnlyAdds(ins_lines, ins_section, ins_block, ins_result)
  /\ pc = "written" => IsSubsequenceFrom(NonBlankLines(ins_lines), ins_written, 1, 1)

\* C27: the lines before insert_into_section are a subsequence of the lines after
\* it and the added lines are only blank lines, the section header and the
\* block; after the import has written the today file every non-blank line of
\* the old file is still there, in the same order, except that the line that
\* ends the written file has no trailing whitespace
C27_OnlyAddsLines ==
  /\ pc \in {"inserted", "written"} =>
       InsertOnlyAdds(ins_lines, ins_section, ins_block, ins_result)
  /\ pc = "written" => KeptButFileEnd(ins_lines, ins_written)

\* a block was put into a section that is there, between two lines of the old
\* file, and the old line that ends the written file lost its trailing space
C27_Witness ==
  /\ pc = "written"
  /\ ins_block # <<>>
  /\ HasSection(ins_lines, ins_section)
  /\ Len(ins_lines) >= 2
  /\ ins_lines[Len(ins_lines)] = <<"Work", SP>>
  /\ ins_written[Len(ins_written)] = <<"Work">>
  /\ ins_result[Len(ins_result)] = <<"Work", SP>>
  /\ Len(ins_written) > Len(ins_lines)

\* line k is deeper-indented inside the block that starts at line start: only
\* blank and deeper lines stand between the two
DeeperInside(k, start) ==
  /\ leading_indent(lines[k]) > leading_indent(lines[start])
  /\ \A m \in (start + 1)..(k - 1) :
       IsBlank(lines[m]) \/ leading_indent(lines[m]) > leading_indent(lines[start])

\* C28: in both parsers every emitted block is the range of lines from the
\* index the loop stands at to the index it moves to, and the index never moves
\* back, so the blocks are disjoint ranges in file order; a tagged line that
\* lies deeper-indented inside the block is within that range, so the loop
\* never stands at it and it is not emitted as an entry of its own
C28_BlocksDisjoint ==
  [][ /\ idx' >= idx
      /\ fp_i' >= fp_i
      /\ StatusEmits =>
           /\ idx' > idx
           /\ tasks'[Len(tasks')].lines =
                [k \in 1..(idx' - idx) |-> RStrip(lines[idx + k - 1])]
           /\ \A k \in (idx + 1)..Len(lines) :
                (STATUS_PATTERN(lines[k]) /\ DeeperInside(k, idx)) => k < idx'
      /\ (pc = "priority" /\ FpEmitted # {}) =>
           /\ fp_i' > fp_i
           /\ \E p \in FpEmitted :
                priorities'[p][Len(priorities'[p])].lines = SubSeq(lines, fp_i, fp_i' - 1)
           /\ \A k \in (fp_i + 1)..Len(lines) :
                (PRIORITY_PATTERN(lines[k]) /\ DeeperInside(k, fp_i)) => k < fp_i'
    ]_vars

\* both parsers are done with a file of three tagged lines, each deeper than the
\* one before: task_status_view emitted one entry that holds all three lines,
\* filter_priority one [1] block that holds the nested [2] line, and the nested
\* [2] line is not an entry of its own
C28_Witness ==
  /\ pc = "done"
  /\ lines = << <<SP, SP, "[", "B", "]", SP, "Two">>,
                <<TAB, "[", "1", "]", SP, "Ship">>,
                <<TAB, TAB, "[", "2", "]", SP, "sub">> >>
  /\ Len(tasks) = 1
  /\ Len(tasks[1].lines) = 3
  /\ Len(priorities[1]) = 1
  /\ priorities[1][1].lines = SubSeq(lines, 2, 3)
  /\ priorities[2] = <<>>

\* task_status_view is done with a status line and a deeper status line: one
\* entry holds both
C28_StatusNested ==
  /\ pc = "priority"
  /\ lines = << <<SP, SP, "[", "B", "]", SP, "Two">>, <<TAB, "[", "i", "]", SP, "Ship">> >>
  /\ Len(tasks) = 1
  /\ Len(tasks[1].lines) = 2

\* the entries of the source file with a status of the import spec
MatchingEntries ==
  LET entries == parse_file(source_file)
  IN  { entries[k] : k \in { j \in 1..Len(entries) :
                               InList(entries[j].status, import_spec.statuses) } }

\* every matching source block is its tag line only and the destination was
\* empty before the first import
SingleLineIntoEmpty ==
  /\ pc = "import"
  /\ today_log[1] = <<>>
  /\ \A e \in MatchingEntries : Len(e.lines) = 1

\* what C29 promises of the runs so far
InsertsOncePerSignature ==
  /\ Len(inserted_log) >= 1 =>
       inserted_log[1] = Cardinality({ canonicalize_lines(e.lines) : e \in MatchingEntries })
  /\ Len(inserted_log) >= 2 =>
       /\ inserted_log[2] = 0
       /\ today_log[3] = today_log[2]

\* C29 (as claimed): when every matching source block is its tag line only and
\* the destination file is empty, the first import inserts one entry per
\* distinct signature, and a second import with the same spec inserts nothing
\* and leaves the destination as it is
C29_SingleLineAsClaimed == SingleLineIntoEmpty => InsertsOncePerSignature

\* C29: with allow_duplicates false, when every matching source block is its tag
\* line only and the destination file is empty, the first import inserts one
\* entry per distinct signature, and a second import with the same spec inserts
\* nothing and leaves the destination as it is
C29_SingleLineIdempotent ==
  (SingleLineIntoEmpty /\ ~import_spec.allow_duplicates) => InsertsOncePerSignature

\* two imports have run on a source with two single-line tasks of different
\* signatures under a heading: the first inserted both, the second none
C29_Witness ==
  /\ SingleLineIntoEmpty
  /\ ~import_spec.allow_duplicates
  /\ Len(inserted_log) = 2
  /\ inserted_log[1] = 2
  /\ inserted_log[2] = 0
  /\ Len(source_file) = 3
  /\ Len(today_log[2]) > 3
  /\ today_log[3] = today_log[2]

====
